---- MODULE Spec2Model ----
(***************************************************************************)
(* Model of the ReliefWeb -> Trello connectors (disasters, topics,         *)
(* countries): one run of a connector reads the upstream entities and a    *)
(* snapshot of the board, then updates, creates and archives cards.        *)
(*                                                                         *)
(* Strings that the code splits and re-assembles (card descriptions, body  *)
(* texts, check item names) are sequences of tokens; a token is one        *)
(* paragraph, one header literal, one formatted date or one piece of a     *)
(* markdown link.  The string operations of the code (lastIndexOf,         *)
(* substring, split, join) are the same operations on those sequences.     *)
(***************************************************************************)
EXTENDS Integers, Sequences, FiniteSets, TLC

(***************************************************************************)
(* Bounds of the model.                                                    *)
(***************************************************************************)
\* Number of runs of the connector in one behaviour.
MaxRuns == 2
\* Number of failing board calls in one behaviour.
MaxFailures == 1
\* Number of changes made by the outside world (upstream or humans on the
\* board) in one behaviour.
MaxEdits == 1
\* Number of boards of the organization that the overview connector monitors.
MaxBoards == 3

(***************************************************************************)
(* Tokens and string helpers.                                              *)
(***************************************************************************)
Tok(k, n) == [k |-> k, n |-> n]

\* The value of a property that was never set on a JavaScript object.
Undefined == <<Tok("undefined", 0)>>

Min(a, b) == IF a < b THEN a ELSE b
Max(a, b) == IF a > b THEN a ELSE b

\* String.prototype.lastIndexOf on token sequences (0-based, -1 if absent).
lastIndexOf(s, pat) ==
  LET hits == {i \in 0..(Len(s) - Len(pat)) : SubSeq(s, i + 1, i + Len(pat)) = pat}
  IN IF hits = {} THEN -1 ELSE CHOOSE i \in hits : \A j \in hits : j <= i

\* String.prototype.indexOf on token sequences (0-based, -1 if absent).
indexOf(s, pat) ==
  LET hits == {i \in 0..(Len(s) - Len(pat)) : SubSeq(s, i + 1, i + Len(pat)) = pat}
  IN IF hits = {} THEN -1 ELSE CHOOSE i \in hits : \A j \in hits : i <= j

\* String.prototype.substring(a, b): arguments clamped to [0, length] and
\* swapped when a > b.
substring(s, a, b) ==
  LET ca == Max(0, Min(a, Len(s)))
      cb == Max(0, Min(b, Len(s)))
  IN SubSeq(s, Min(ca, cb) + 1, Max(ca, cb))

\* String.prototype.substring(a).
substringFrom(s, a) == substring(s, a, Len(s))

\* Array.prototype.slice(-n).
sliceLast(s, n) == SubSeq(s, Max(1, Len(s) - n + 1), Len(s))

\* The elements of a set of strings or integers in the order of a sequence.
InOrder(order, S) == SelectSeq(order, LAMBDA x : x \in S)

Range(s) == {s[i] : i \in 1..Len(s)}

\* String.prototype.trim: whitespace tokens removed at both ends.
RECURSIVE trimLeft(_)
trimLeft(s) == IF s # <<>> /\ Head(s) = Tok("ws", 0) THEN trimLeft(Tail(s)) ELSE s
RECURSIVE trimRight(_)
trimRight(s) ==
  IF s # <<>> /\ s[Len(s)] = Tok("ws", 0) THEN trimRight(SubSeq(s, 1, Len(s) - 1)) ELSE s
trim(s) == trimRight(trimLeft(s))

\* String.prototype.split(separator): the pieces between the separators.
RECURSIVE split(_, _)
split(s, sep) ==
  LET i == indexOf(s, sep)
  IN IF i = -1 THEN <<s>>
     ELSE <<SubSeq(s, 1, i)>> \o split(SubSeq(s, i + Len(sep) + 1, Len(s)), sep)

(***************************************************************************)
(* The three connectors, their constants and their configuration.          *)
(***************************************************************************)
Connectors == {"disasters", "topics", "countries"}

maxIndex == 10000000

\* urlPattern: taxonomy term links for disasters and countries, node links
\* for topics; both schemes are accepted.
UrlKind(c) == IF c = "topics" THEN "node" ELSE "term"
Url(scheme, kind, id) == [scheme |-> scheme, kind |-> kind, id |-> id]
\* A pattern that accepts the https scheme only.
urlPatternTestHttps(c, url) == url.kind = UrlKind(c) /\ url.scheme = "https"
urlPatternTest(c, url) == url.kind = UrlKind(c)

\* Header literals of the card descriptions.
profileUpdateHeader == <<Tok("# Last Profile Update", 0)>>
profileHeader == <<Tok("# Profile", 0)>>
glideHeader == <<Tok("# Glide Number", 0)>>
lastUpdateHeader == <<Tok("# Last Update", 0)>>
introductionHeader == <<Tok("# Introduction", 0)>>

\* Label names fixed in the code.
profileUpdateOlderThan3Weeks == "Profile Update > 3 Weeks"
profileUpdateOlderThan2Weeks == "Profile Update > 2 Weeks"
profileUpdateOlderThan1Week == "Profile Update > 1 Weeks"
lastReportOlderThan2Months == "Last Report > 2 Months"
lastReportOlderThan1Month == "Last Report > 1 Month"
lastReportOlderThan1Week == "Last Report > 1 Week"
lastUpdateOlderThan2Months == "Last Update > 2 Months"
lastUpdateOlderThan1Month == "Last Update > 1 Month"
lastUpdateOlderThan1Week == "Last Update > 1 Week"
ongoingSituation == "Ongoing Situation"
profileChecked == "Profile Checked"

\* config.lists: the status lists of the disasters and topics boards.
ConfigLists(c) ==
  IF c = "disasters"
  THEN << [name |-> "Alert", status |-> "alert", position |-> 1],
          [name |-> "Ongoing", status |-> "ongoing", position |-> 2] >>
  ELSE IF c = "topics"
  THEN << [name |-> "Published", status |-> "published", position |-> 1],
          [name |-> "Draft", status |-> "draft", position |-> 2] >>
  ELSE << >>

\* config.statuses of the countries connector.
ConfigStatuses == [ongoing |-> "ongoing", normal |-> "normal"]

\* The statuses an upstream entity can have: the fetch filters on them.
Statuses(c) ==
  IF c = "countries" THEN {"ongoing", "normal"}
  ELSE {ConfigLists(c)[i].status : i \in 1..Len(ConfigLists(c))}

\* config.labels: names of the labels defined by the configuration.
ConfigLabels(c) ==
  IF c = "disasters"
  THEN << profileUpdateOlderThan3Weeks, profileUpdateOlderThan2Weeks,
          profileUpdateOlderThan1Week, lastReportOlderThan2Months,
          lastReportOlderThan1Month, lastReportOlderThan1Week >>
  ELSE IF c = "topics"
  THEN << "Featured", "Published", lastUpdateOlderThan2Months,
          lastUpdateOlderThan1Month, lastUpdateOlderThan1Week >>
  ELSE << ongoingSituation, profileChecked, profileUpdateOlderThan3Weeks,
          profileUpdateOlderThan2Weeks, profileUpdateOlderThan1Week >>

\* Names of the labels derived from the entities (types, countries, themes,
\* iso3 codes and short names), and labels only humans put on cards.
TagNames == <<"Flood", "Peru">>
HumanLabels == <<"Custom", "">>

\* One fixed order of all label names: iteration order of label collections.
LabelOrder(c) == ConfigLabels(c) \o TagNames \o HumanLabels

\* Lists of a board: the status lists and one list humans made.
OtherList == "Other"

(***************************************************************************)
(* Upstream entities as the ReliefWeb API returns them.                    *)
(***************************************************************************)
EntityIds == {100, 101}

\* Paragraphs of a body text; a body may contain a line that reads like a
\* header of the card description.
P(n) == Tok("p", n)
BodyHeader(c) == IF c = "topics" THEN introductionHeader ELSE profileHeader
Bodies(c) ==
  { <<>>, <<P(1)>>, <<P(2)>>, <<P(1), P(2), P(3), P(4)>>, <<P(1), P(2), P(3), P(4), P(5)>>,
    <<P(1)>> \o BodyHeader(c) \o <<P(2)>> }

EntityNames(id) == IF id = 100 THEN {"Alpha", "Alpha (2)"} ELSE {"Beta", "Beta (2)"}

\* Link lists of a topic: rivers and sections (id, url, title) and the
\* anchors of the resources html (href, text).  A text of one whitespace
\* token is an anchor around an image or a blank.
LinkUrl(n) == <<Tok("link", n)>>
RiverLists ==
  { <<>>,
    << [id |-> "river-1", url |-> LinkUrl(1), title |-> <<Tok("t", 1)>>] >>,
    << [id |-> "section-1", url |-> LinkUrl(2), title |-> <<Tok("t", 2)>>],
       [id |-> "river-1", url |-> LinkUrl(1), title |-> <<Tok("t", 3)>>] >> }
ResourceLists ==
  { <<>>,
    << [href |-> LinkUrl(3), text |-> <<Tok("t", 4)>>] >>,
    << [href |-> LinkUrl(3), text |-> <<Tok("ws", 0)>>] >> }

TagLists == { <<>>, <<"Flood">>, <<"Flood", "Peru">> }

\* Age in days of the newest report of the last two months (-1: none) and
\* whether a report was ever posted.
Reports == { [recent |-> 3, ever |-> TRUE], [recent |-> 40, ever |-> TRUE],
             [recent |-> -1, ever |-> TRUE], [recent |-> -1, ever |-> FALSE] }
           \cup {[recent |-> d, ever |-> TRUE] : d \in {7, 8, 30, 31, 60, 61}}

\* The entity every behaviour starts with.
DefaultEntity(c, id) ==
  [ id |-> id,
    scheme |-> "https",
    name |-> IF id = 100 THEN "Alpha" ELSE "Beta",
    status |-> IF c = "countries" THEN "ongoing" ELSE ConfigLists(c)[1].status,
    body |-> <<P(1)>>,
    glide |-> <<>>,
    tags |-> <<"Flood">>,
    report |-> [recent |-> 3, ever |-> TRUE],
    featured |-> FALSE,
    changed |-> 0,
    rivers |-> <<>>,
    resources |-> <<>> ]

\* The entities that differ from e in exactly one field.
Variants(c, e) ==
  {[e EXCEPT !.name = n] : n \in EntityNames(e.id) \ {e.name}}
  \cup {[e EXCEPT !.status = st] : st \in Statuses(c) \ {e.status}}
  \cup {[e EXCEPT !.body = b] : b \in Bodies(c) \ {e.body}}
  \cup {[e EXCEPT !.tags = t] : t \in TagLists \ {e.tags}}
  \cup (IF c = "disasters"
        THEN {[e EXCEPT !.glide = g] : g \in {<<>>, <<Tok("glide", 1)>>} \ {e.glide}}
             \cup {[e EXCEPT !.report = r] : r \in Reports \ {e.report}}
        ELSE {})
  \cup (IF c = "topics"
        THEN {[e EXCEPT !.featured = ~e.featured]}
             \cup {[e EXCEPT !.rivers = r] : r \in RiverLists \ {e.rivers}}
             \cup {[e EXCEPT !.resources = r] : r \in ResourceLists \ {e.resources}}
        ELSE {})

(***************************************************************************)
(* Dates.  A date is a day number; formatting a date gives one token.      *)
(***************************************************************************)
NaN == 0 - 1000000

\* DateWrapper.format('D MMM YYYY').
formatDate(day) == <<Tok("date", day)>>
\* DateWrapper.format('D MMM YYYY hh:mm:ss UTC') of the changed date.
formatDateTime(day) == <<Tok("datetime", day)>>

\* DateWrapper.diffDays(date): days between now and the date a string
\* parses to; a missing or empty argument is replaced by now, any other
\* text is an invalid date.
diffDays(now, text) ==
  IF text = Undefined \/ text = <<>> THEN 0
  ELSE IF Len(text) = 1 /\ text[1].k \in {"date", "datetime"} THEN now - text[1].n
  ELSE NaN

(***************************************************************************)
(* Preparing the upstream entities.                                        *)
(***************************************************************************)
\* statusPositions.get(status) || 0
statusPosition(c, status) ==
  LET hits == {i \in 1..Len(ConfigLists(c)) : ConfigLists(c)[i].status = status}
  IN IF hits = {} THEN 0 ELSE ConfigLists(c)[CHOOSE i \in hits : TRUE].position

\* The truncation of a body text of more than 3 paragraphs.
\* A truncation that cuts the paragraphs before it appends the link.
truncateBeforeLink(body, link) ==
  IF Len(body) > 3
  THEN <<Tok("...", 0)>> \o trim(sliceLast(body, 4)) \o <<link>>
  ELSE body

truncate(body, link) ==
  IF Len(body) > 3
  THEN <<Tok("...", 0)>> \o trim(sliceLast(body \o <<link>>, 4))
  ELSE body

\* generateMarkdownLink(url, title)
generateMarkdownLink(url, title) ==
  <<Tok("[", 0)>> \o title \o <<Tok("](", 0)>> \o url \o <<Tok(")", 0)>>

\* Map.set on a map kept as a sequence of entries with a key: a new key is
\* appended, an existing key keeps its place and gets the new entry.
MapHas(m, key) == \E i \in 1..Len(m) : m[i].key = key
MapIndex(m, key) == CHOOSE i \in 1..Len(m) : m[i].key = key
MapGet(m, key) == m[MapIndex(m, key)]
\* A set that keeps the entry of an existing key.
MapSetKeep(m, entry) == IF MapHas(m, entry.key) THEN m ELSE Append(m, entry)
MapSet(m, entry) ==
  IF MapHas(m, entry.key) THEN [m EXCEPT ![MapIndex(m, entry.key)] = entry]
  ELSE Append(m, entry)
MapDelete(m, key) == SelectSeq(m, LAMBDA x : x.key # key)

\* The last-report bucket getExtraDisasterData stores (-1: left unset).
\* A last report stored as its age in days, without the buckets.
lastReportOfDays(report) ==
  IF report.recent >= 0 THEN report.recent
  ELSE IF report.ever THEN 61 ELSE -1

lastReportOf(report) ==
  IF report.recent >= 0
  THEN IF report.recent > 60 THEN 61
       ELSE IF report.recent > 30 THEN 31
       ELSE IF report.recent > 7 THEN 8
       ELSE report.recent
  ELSE IF report.ever THEN 61 ELSE -1

\* The river ids that start with 'section-'.
SectionIds == {"section-1"}

\* The rivers, sections and resources check lists of a topic.
RECURSIVE riverItems(_, _, _)
riverItems(rivers, sections, acc) ==
  IF rivers = <<>> THEN acc
  ELSE LET river == Head(rivers)
           isSection == river.id \in SectionIds
           own == (isSection = sections)
           item == [key |-> river.url, url |-> river.url, title |-> river.title,
                    name |-> generateMarkdownLink(river.url, river.title),
                    position |-> Len(acc) + 1]
       IN riverItems(Tail(rivers), sections, IF own THEN MapSet(acc, item) ELSE acc)

RECURSIVE resourceItems(_, _)
resourceItems(anchors, acc) ==
  IF anchors = <<>> THEN acc
  ELSE LET url == trim(Head(anchors).href)
           title == trim(Head(anchors).text)
           item == [key |-> url, url |-> url,
                    title |-> IF title # <<>> THEN title ELSE url,
                    name |-> generateMarkdownLink(url, title),
                    position |-> Len(acc) + 1]
       IN resourceItems(Tail(anchors), MapSet(acc, item))

\* prepareDisaster followed by the last-report lookup.
prepareDisaster(d) ==
  [ id |-> d.id,
    url |-> Url("http", "term", d.id),
    name |-> d.name,
    status |-> d.status,
    statusPosition |-> statusPosition("disasters", d.status),
    body |-> truncate(d.body, Tok("[Read full description]", d.id)),
    glide |-> d.glide,
    tags |-> d.tags,
    lastReport |-> lastReportOf(d.report),
    featured |-> FALSE,
    changed |-> 0,
    lastUpdate |-> Undefined,
    checklists |-> <<>> ]

\* prepareTopic
prepareTopic(t) ==
  [ id |-> t.id,
    url |-> Url(t.scheme, "node", t.id),
    name |-> t.name,
    status |-> t.status,
    statusPosition |-> statusPosition("topics", t.status),
    body |-> truncate(t.body, Tok("[Read full introduction]", t.id)),
    glide |-> <<>>,
    tags |-> t.tags,
    lastReport |-> -1,
    featured |-> t.featured,
    changed |-> t.changed,
    lastUpdate |-> formatDateTime(t.changed),
    checklists |-> << [name |-> "Rivers", items |-> riverItems(t.rivers, FALSE, <<>>)],
                      [name |-> "Sections", items |-> riverItems(t.rivers, TRUE, <<>>)],
                      [name |-> "Resources", items |-> resourceItems(t.resources, <<>>)] >> ]

\* prepareCountry
prepareCountry(co) ==
  [ id |-> co.id,
    url |-> Url("http", "term", co.id),
    name |-> co.name,
    status |-> co.status,
    statusPosition |-> 0,
    body |-> co.body,
    glide |-> <<>>,
    tags |-> co.tags,
    lastReport |-> -1,
    featured |-> FALSE,
    changed |-> 0,
    lastUpdate |-> Undefined,
    checklists |-> <<>> ]

prepareEntity(c, e) ==
  IF c = "disasters" THEN prepareDisaster(e)
  ELSE IF c = "topics" THEN prepareTopic(e)
  ELSE prepareCountry(e)

\* The comparator of sortDisasters and sortTopics.  It reads the property
\* pos, which no entity has (prepare sets statusPosition): both sides are
\* undefined, they are equal, and the branches on a.pos < b.pos are dead.
entityPos(e) == "undefined"
compareEntities(a, b) ==
  IF entityPos(a) = entityPos(b)
  THEN IF a.id < b.id THEN 1 ELSE IF a.id > b.id THEN -1 ELSE 0
  ELSE -1

\* Array.prototype.sort with that comparator (insertion sort, stable).
RECURSIVE insertSorted(_, _)
insertSorted(sorted, e) ==
  IF sorted = <<>> THEN <<e>>
  ELSE IF compareEntities(e, Head(sorted)) < 0 THEN <<e>> \o sorted
  ELSE <<Head(sorted)>> \o insertSorted(Tail(sorted), e)
RECURSIVE sortEntities(_)
sortEntities(es) ==
  IF es = <<>> THEN <<>>
  ELSE insertSorted(sortEntities(SubSeq(es, 1, Len(es) - 1)), es[Len(es)])

\* The response of the API for the ids present upstream: sort id:desc.
RECURSIVE idsDescending(_)
idsDescending(ids) ==
  IF ids = {} THEN <<>>
  ELSE LET m == CHOOSE i \in ids : \A j \in ids : j <= i
       IN <<m>> \o idsDescending(ids \ {m})

\* getDisasters, getTopics, getCountries: the prepared entities of a run.
getEntities(c, up) ==
  LET fetched == idsDescending(up.ids)
      prepared == [i \in 1..Len(fetched) |-> prepareEntity(c, up.ent[fetched[i]])]
  IN IF c = "countries" THEN prepared ELSE sortEntities(prepared)

(***************************************************************************)
(* The board.  A card is a record; its id is its index in board.cards.     *)
(* Positions are counted in halves so that rounding is visible.            *)
(***************************************************************************)
Card(name, idList, pos, labels, desc, attachments) ==
  [ name |-> name, idList |-> idList, pos |-> pos, closed |-> FALSE,
    labels |-> labels, desc |-> desc, attachments |-> attachments,
    checklists |-> <<>> ]

\* Number(parseFloat(card.pos).toFixed()): a position in halves, rounded.
roundPos(pos) == (pos + 1) \div 2

\* Lists of the board that are status lists of the configuration.
ConfigListNames(c) == {ConfigLists(c)[i].name : i \in 1..Len(ConfigLists(c))}

\* prepareCard of the three connectors: the sections found in card.desc.
prepareCardDisaster(id, card) ==
  LET i1 == lastIndexOf(card.desc, profileUpdateHeader)
      i2 == lastIndexOf(card.desc, profileHeader)
      i3 == lastIndexOf(card.desc, glideHeader)
      l1 == Len(profileUpdateHeader)
      l2 == Len(profileHeader)
      l3 == Len(glideHeader)
      found == card.desc # <<>> /\ i1 # -1 /\ i2 # -1 /\ i3 # -1
  IN [ id |-> id, card |-> card, desc |-> card.desc,
       profileUpdate |-> IF found THEN substring(card.desc, i1 + l1, i2) ELSE Undefined,
       text |-> IF found THEN substring(card.desc, i2 + l2, i3) ELSE Undefined,
       glide |-> IF found THEN substringFrom(card.desc, i3 + l3) ELSE Undefined ]

\* A prepareCard that leaves the sections in the description it keeps.
prepareCardTopicWhole(id, card) ==
  LET i1 == lastIndexOf(card.desc, lastUpdateHeader)
      i2 == lastIndexOf(card.desc, introductionHeader)
      l1 == Len(lastUpdateHeader)
      l2 == Len(introductionHeader)
      found == card.desc # <<>> /\ i1 # -1 /\ i2 # -1
  IN [ id |-> id, card |-> card,
       desc |-> card.desc,
       profileUpdate |-> IF found THEN substring(card.desc, i1 + l1, i2) ELSE Undefined,
       text |-> IF found THEN substringFrom(card.desc, i2 + l2) ELSE Undefined,
       glide |-> Undefined ]

prepareCardTopic(id, card) ==
  LET i1 == lastIndexOf(card.desc, lastUpdateHeader)
      i2 == lastIndexOf(card.desc, introductionHeader)
      l1 == Len(lastUpdateHeader)
      l2 == Len(introductionHeader)
      found == card.desc # <<>> /\ i1 # -1 /\ i2 # -1
  IN [ id |-> id, card |-> card,
       desc |-> IF found THEN substring(card.desc, 0, i1) ELSE card.desc,
       profileUpdate |-> IF found THEN substring(card.desc, i1 + l1, i2) ELSE Undefined,
       text |-> IF found THEN substringFrom(card.desc, i2 + l2) ELSE Undefined,
       glide |-> Undefined ]

prepareCardCountry(id, card) ==
  LET i1 == lastIndexOf(card.desc, profileUpdateHeader)
      i2 == lastIndexOf(card.desc, profileHeader)
      l1 == Len(profileUpdateHeader)
      l2 == Len(profileHeader)
      found == card.desc # <<>> /\ i1 # -1
  IN [ id |-> id, card |-> card, desc |-> card.desc,
       profileUpdate |->
         IF ~found THEN Undefined
         ELSE IF i2 # -1 THEN trim(substring(card.desc, i1 + l1, i2))
         ELSE trim(substringFrom(card.desc, i1 + l1)),
       text |->
         IF ~found THEN Undefined
         ELSE IF i2 # -1 THEN substringFrom(card.desc, i2 + l2)
         ELSE <<>>,
       glide |-> Undefined ]

prepareCard(c, id, card) ==
  IF c = "disasters" THEN prepareCardDisaster(id, card)
  ELSE IF c = "topics" THEN prepareCardTopic(id, card)
  ELSE prepareCardCountry(id, card)

\* generateCardDescription of the three connectors.
generateCardDescriptionDisaster(disaster, updateDate, currentDate) ==
  profileUpdateHeader
  \o (IF updateDate = Undefined \/ updateDate = <<>> THEN currentDate ELSE updateDate)
  \o profileHeader \o disaster.body \o glideHeader \o disaster.glide

generateCardDescriptionTopic(description, updateDate, introduction) ==
  description \o lastUpdateHeader \o updateDate \o introductionHeader \o introduction

generateCardDescriptionCountry(country, currentDate) ==
  profileUpdateHeader \o currentDate \o profileHeader \o country.body

(***************************************************************************)
(* Desired labels.  labels is the set of names in this.labels (the id of a *)
(* label is its name), lists maps a status to the id (name) of its list.   *)
(* A label map is the sequence of its keys in insertion order.             *)
(***************************************************************************)
RECURSIVE MapKeysFrom(_, _)
MapKeysFrom(names, acc) ==
  IF names = <<>> THEN acc
  ELSE MapKeysFrom(Tail(names),
                   IF Head(names) \in Range(acc) THEN acc ELSE Append(acc, Head(names)))
MapKeys(names) == MapKeysFrom(names, <<>>)

Known(labels, names) == SelectSeq(names, LAMBDA n : n \in labels)

getDisasterLabels(labels, disaster) ==
  MapKeys(Known(labels, disaster.tags)
          \o (IF disaster.lastReport > 60 THEN Known(labels, <<lastReportOlderThan2Months>>)
              ELSE IF disaster.lastReport > 30 THEN Known(labels, <<lastReportOlderThan1Month>>)
              ELSE IF disaster.lastReport > 7 THEN Known(labels, <<lastReportOlderThan1Week>>)
              ELSE <<>>))

\* A selection whose thresholds are reached, not exceeded.
getProfileUpdateLabelFrom(labels, now, lastUpdate) ==
  LET days == diffDays(now, lastUpdate)
  IN IF days >= 21 THEN Known(labels, <<profileUpdateOlderThan3Weeks>>)
     ELSE IF days >= 14 THEN Known(labels, <<profileUpdateOlderThan2Weeks>>)
     ELSE IF days >= 7 THEN Known(labels, <<profileUpdateOlderThan1Week>>)
     ELSE <<>>

getProfileUpdateLabel(labels, now, lastUpdate) ==
  LET days == diffDays(now, lastUpdate)
  IN IF days > 21 THEN Known(labels, <<profileUpdateOlderThan3Weeks>>)
     ELSE IF days > 14 THEN Known(labels, <<profileUpdateOlderThan2Weeks>>)
     ELSE IF days > 7 THEN Known(labels, <<profileUpdateOlderThan1Week>>)
     ELSE <<>>

getTopicLabels(labels, lists, now, topic) ==
  LET days == now - topic.changed
  IN MapKeys(Known(labels, topic.tags)
             \o (IF topic.featured THEN Known(labels, <<"Featured">>) ELSE <<>>)
             \o Known(labels, <<lists[topic.status]>>)
             \o (IF days > 60 THEN Known(labels, <<lastUpdateOlderThan2Months>>)
                 ELSE IF days > 30 THEN Known(labels, <<lastUpdateOlderThan1Month>>)
                 ELSE IF days > 7 THEN Known(labels, <<lastUpdateOlderThan1Week>>)
                 ELSE <<>>))

getCountryLabels(labels, country) ==
  MapKeys((IF ongoingSituation \in labels /\ ConfigStatuses[country.status] = "ongoing"
           THEN <<ongoingSituation>> ELSE <<>>)
          \o (IF profileChecked \in labels /\ country.body # <<>>
              THEN <<profileChecked>> ELSE <<>>)
          \o Known(labels, country.tags))

(***************************************************************************)
(* Calls to the board.  A handler is modelled by the sequence of calls it  *)
(* makes in order; dep is the index of the call whose failure skips this   *)
(* one (0: none).                                                          *)
(***************************************************************************)
NoData == [x \in {} |-> 0]

Call(m, path, ent, card, data) ==
  [ m |-> m, path |-> path, ent |-> ent, card |-> card, label |-> "none", cl |-> "none",
    item |-> 0, data |-> data, dep |-> 0 ]

\* updateCardLabels, first loop: the labels of the card to remove.  The
\* topics and countries connectors remove only labels found in this.labels.
removedLabelsDisaster(card, desired) ==
  SelectSeq(InOrder(LabelOrder("disasters"), card.labels),
            LAMBDA n : n \notin Range(desired))

\* A first loop that does not look the label up in this.labels.
removedLabelsAny(labels, card, desired) ==
  SelectSeq(InOrder(LabelOrder("topics"), card.labels), LAMBDA n : n \notin Range(desired))
removedLabelsTopic(labels, card, desired) ==
  SelectSeq(InOrder(LabelOrder("topics"), card.labels),
            LAMBDA n : n \notin Range(desired) /\ n \in labels)

removedLabelsCountry(labels, card, desired) ==
  SelectSeq(InOrder(LabelOrder("countries"), card.labels),
            LAMBDA n : n \notin Range(desired) /\ n \in labels)

removedLabels(c, labels, card, desired) ==
  IF c = "disasters" THEN removedLabelsDisaster(card, desired)
  ELSE IF c = "topics" THEN removedLabelsTopic(labels, card, desired)
  ELSE removedLabelsCountry(labels, card, desired)

\* updateCardLabels, second loop: the desired labels left to add.
\* A second loop that does not look at the labels of the card.
addedLabelsAll(card, desired) == desired
addedLabels(card, desired) == SelectSeq(desired, LAMBDA n : n \notin card.labels)

\* updateCardLabels: one DELETE per label to remove, one POST per label to add.
updateCardLabels(c, labels, ent, cardId, card, desired) ==
  LET removed == removedLabels(c, labels, card, desired)
      added == addedLabels(card, desired)
  IN [i \in 1..Len(removed) |->
        [Call("DELETE", "/cards/id/idLabels/id", ent, cardId, NoData)
           EXCEPT !.label = removed[i]]]
     \o [i \in 1..Len(added) |->
        [Call("POST", "/cards/id/idLabels", ent, cardId, NoData)
           EXCEPT !.label = added[i]]]

\* The field update of a card, sent only when a field differs.
\* An updateCard that sends the PUT whatever it has collected.
putCardAlways(ent, cardId, data) == <<Call("PUT", "/cards/id", ent, cardId, data)>>

putCard(ent, cardId, data) ==
  IF DOMAIN data # {} THEN <<Call("PUT", "/cards/id", ent, cardId, data)>> ELSE <<>>

Field(cond, name, value) == IF cond THEN name :> value ELSE NoData

(***************************************************************************)
(* Check lists of the topics connector.  A check item is [name, pos]; the  *)
(* check list a call is about is the last one of the card with that name.  *)
(***************************************************************************)
linkSeparator == <<Tok("](", 0)>>

checkItemCall(m, path, ent, cardId, clName, itemIndex, item) ==
  [Call(m, path, ent, cardId, [name |-> item.name, pos |-> item.position])
     EXCEPT !.cl = clName, !.item = itemIndex]

\* addCheckItem
addCheckItem(ent, cardId, clName, item) ==
  checkItemCall("POST", "/checklists/id/checkItems", ent, cardId, clName, 0, item)

\* addChecklist: the check list, then its items; a failed creation of the
\* check list skips the items.  base is the number of calls before these.
addChecklist(ent, cardId, clName, items, base) ==
  <<[Call("POST", "/cards/id/checklists", ent, cardId, NoData) EXCEPT !.cl = clName]>>
  \o [i \in 1..Len(items) |->
        [addCheckItem(ent, cardId, clName, items[i]) EXCEPT !.dep = base + 1]]

\* updateChecklist, first loop over the existing check items from index k.
RECURSIVE updateCheckItems(_, _, _, _, _, _)
updateCheckItems(ent, cardId, checklist, k, items, acc) ==
  IF k > Len(checklist.items) THEN [items |-> items, calls |-> acc]
  ELSE
    LET checkitem == checklist.items[k]
        parts == split(checkitem.name, linkSeparator)
        title == SubSeq(parts[1], 2, Len(parts[1]))
        url == SubSeq(parts[2], 1, Len(parts[2]) - 1)
    IN IF indexOf(checkitem.name, linkSeparator) > 0
       THEN IF MapHas(items, url)
            THEN LET item == MapGet(items, url)
                 IN updateCheckItems(ent, cardId, checklist, k + 1, MapDelete(items, url),
                      IF item.title # title \/ item.position # checkitem.pos
                      THEN Append(acc, checkItemCall("PUT",
                                    "/cards/id/checklist/id/checkItem/id",
                                    ent, cardId, checklist.name, k, item))
                      ELSE acc)
            ELSE updateCheckItems(ent, cardId, checklist, k + 1, items,
                   Append(acc, [Call("DELETE", "/checklists/id/checkItems/id",
                                     ent, cardId, NoData)
                                  EXCEPT !.cl = checklist.name, !.item = k]))
       ELSE updateCheckItems(ent, cardId, checklist, k + 1, items, acc)

\* A synchronisation that empties the check list and adds the items anew.
updateChecklistAnew(ent, cardId, checklist, items) ==
  [k \in 1..Len(checklist.items) |->
     [Call("DELETE", "/checklists/id/checkItems/id", ent, cardId, NoData)
        EXCEPT !.cl = checklist.name, !.item = k]]
  \o [i \in 1..Len(items) |-> addCheckItem(ent, cardId, checklist.name, items[i])]

\* updateChecklist: update or delete the existing items, add the new ones.
updateChecklist(ent, cardId, checklist, items) ==
  LET first == updateCheckItems(ent, cardId, checklist, 1, items, <<>>)
  IN first.calls
     \o [i \in 1..Len(first.items) |->
           addCheckItem(ent, cardId, checklist.name, first.items[i])]

\* The last check list of the card with a name (the map keeps the last).
HasChecklist(card, name) == \E i \in 1..Len(card.checklists) : card.checklists[i].name = name
LastChecklist(card, name) ==
  CHOOSE i \in 1..Len(card.checklists) :
    /\ card.checklists[i].name = name
    /\ \A j \in 1..Len(card.checklists) : card.checklists[j].name = name => j <= i

\* updateCardChecklists over the check lists of the topic from index k.
RECURSIVE updateCardChecklists(_, _, _, _, _, _)
updateCardChecklists(ent, cardId, card, topic, k, acc) ==
  IF k > Len(topic.checklists) THEN acc
  ELSE LET wanted == topic.checklists[k]
       IN updateCardChecklists(ent, cardId, card, topic, k + 1,
            acc \o (IF ~HasChecklist(card, wanted.name)
                    THEN addChecklist(ent, cardId, wanted.name, wanted.items, Len(acc))
                    ELSE updateChecklist(ent, cardId,
                           card.checklists[LastChecklist(card, wanted.name)],
                           wanted.items)))

(***************************************************************************)
(* updateCard and createCard of the three connectors: the calls each makes *)
(* for one entity.  pc is the prepared card, now the current day.          *)
(***************************************************************************)
\* The profile update date of the card after the comparison of the profile.
profileUpdateOfNow(pc, disaster, now) == formatDate(now)

profileUpdateOf(pc, disaster, now) ==
  IF disaster.body # pc.text THEN formatDate(now) ELSE pc.profileUpdate

\* An updateCard that leaves an archived card archived.
updateDataDisasterClosed(lists, now, position, pc, disaster) ==
  Field(pc.card.idList # lists[disaster.status], "idList", lists[disaster.status])
  @@ Field(roundPos(pc.card.pos) # position, "pos", position)
  @@ Field(pc.card.name # disaster.name, "name", "disaster.name")
  @@ Field(disaster.body # pc.text \/ disaster.glide # pc.glide, "desc",
           generateCardDescriptionDisaster(disaster, profileUpdateOf(pc, disaster, now),
                                           formatDate(now)))

\* The fields the disasters connector sends for a matched card.
updateDataDisaster(lists, now, position, pc, disaster) ==
  Field(pc.card.idList # lists[disaster.status], "idList", lists[disaster.status])
  @@ Field(roundPos(pc.card.pos) # position, "pos", position)
  @@ Field(pc.card.closed, "closed", "false")
  @@ Field(pc.card.name # disaster.name, "name", "disaster.name")
  @@ Field(disaster.body # pc.text \/ disaster.glide # pc.glide, "desc",
           generateCardDescriptionDisaster(disaster, profileUpdateOf(pc, disaster, now),
                                           formatDate(now)))

\* The labels the card of a disaster should bear: those of the disaster and
\* the warning about the date of its profile.
desiredLabelsDisaster(labels, now, pc, disaster) ==
  MapKeys(getDisasterLabels(labels, disaster)
          \o getProfileUpdateLabel(labels, now, profileUpdateOf(pc, disaster, now)))

updateCardDisaster(lists, labels, now, position, pc, disaster) ==
  updateCardLabels("disasters", labels, disaster.id, pc.id, pc.card,
                   desiredLabelsDisaster(labels, now, pc, disaster))
  \o putCard(disaster.id, pc.id, updateDataDisaster(lists, now, position, pc, disaster))

\* The card is in one of the status lists.
managedList(lists, card) == \E st \in DOMAIN lists : card.idList = lists[st]

\* A field update that moves and sorts the card whatever its list is.
updateDataTopicAnyList(lists, position, pc, topic) ==
  Field(pc.card.idList # lists[topic.status], "idList", lists[topic.status])
  @@ Field(roundPos(pc.card.pos) # position, "pos", position)
  @@ Field(pc.card.closed, "closed", "false")
  @@ Field(pc.card.name # topic.name, "name", topic.name)
  @@ Field(topic.body # pc.text \/ topic.lastUpdate # pc.profileUpdate, "desc",
           generateCardDescriptionTopic(pc.desc, topic.lastUpdate, topic.body))
\* The fields the topics connector sends for a matched card.
updateDataTopic(lists, position, pc, topic) ==
  Field(managedList(lists, pc.card) /\ pc.card.idList # lists[topic.status],
        "idList", lists[topic.status])
  @@ Field(managedList(lists, pc.card) /\ roundPos(pc.card.pos) # position, "pos", position)
  @@ Field(pc.card.closed, "closed", "false")
  @@ Field(pc.card.name # topic.name, "name", topic.name)
  @@ Field(topic.body # pc.text \/ topic.lastUpdate # pc.profileUpdate, "desc",
           generateCardDescriptionTopic(pc.desc, topic.lastUpdate, topic.body))

updateCardTopic(lists, labels, now, position, pc, topic) ==
  updateCardChecklists(topic.id, pc.id, pc.card, topic, 1,
    updateCardLabels("topics", labels, topic.id, pc.id, pc.card,
                     getTopicLabels(labels, lists, now, topic)))
  \o putCard(topic.id, pc.id, updateDataTopic(lists, position, pc, topic))

\* The fields the countries connector sends for a matched card.
updateDataCountry(now, pc, country) ==
  IF country.body # <<>>
  THEN Field(pc.text # country.body, "desc",
             generateCardDescriptionCountry(country, formatDate(now)))
  ELSE Field(pc.text = <<>>, "desc", <<>>)

\* The labels the card of a country should bear: those of the country and
\* the warning about the date read from the card.
desiredLabelsCountry(labels, now, pc, country) ==
  MapKeys(getCountryLabels(labels, country)
          \o getProfileUpdateLabel(labels, now, pc.profileUpdate))

updateCardCountry(labels, now, pc, country) ==
  updateCardLabels("countries", labels, country.id, pc.id, pc.card,
                   desiredLabelsCountry(labels, now, pc, country))
  \o putCard(country.id, pc.id, updateDataCountry(now, pc, country))

\* A createCard that sets the labels of the new card one by one.
createCardDisasterPerLabel(lists, labels, now, position, newId, disaster) ==
  << Call("POST", "/cards", disaster.id, newId,
          [ idList |-> lists[disaster.status],
            urlSource |-> "",
            name |-> disaster.name,
            desc |-> generateCardDescriptionDisaster(disaster, Undefined, formatDate(now)),
            pos |-> position,
            idLabels |-> <<>> ]),
     [Call("POST", "/cards/id/attachments", disaster.id, newId, [url |-> disaster.url])
        EXCEPT !.dep = 1] >>
  \o [i \in 1..Len(getDisasterLabels(labels, disaster)) |->
        [Call("POST", "/cards/id/idLabels", disaster.id, newId, NoData)
           EXCEPT !.label = getDisasterLabels(labels, disaster)[i], !.dep = 1]]

\* A createCard that goes on to the attachment after a failed creation.
createCardDisasterNoReturn(lists, labels, now, position, newId, disaster) ==
  << Call("POST", "/cards", disaster.id, newId,
          [ idList |-> lists[disaster.status],
            urlSource |-> "",
            name |-> disaster.name,
            desc |-> generateCardDescriptionDisaster(disaster, Undefined, formatDate(now)),
            pos |-> position,
            idLabels |-> getDisasterLabels(labels, disaster) ]),
     Call("POST", "/cards/id/attachments", disaster.id, newId, [url |-> disaster.url]) >>

\* createCard of the disasters connector: the card, then its attachment.
createCardDisaster(lists, labels, now, position, newId, disaster) ==
  << Call("POST", "/cards", disaster.id, newId,
          [ idList |-> lists[disaster.status],
            urlSource |-> "",
            name |-> disaster.name,
            desc |-> generateCardDescriptionDisaster(disaster, Undefined, formatDate(now)),
            pos |-> position,
            idLabels |-> getDisasterLabels(labels, disaster) ]),
     [Call("POST", "/cards/id/attachments", disaster.id, newId, [url |-> disaster.url])
        EXCEPT !.dep = 1] >>

\* createCard of the topics connector: the card, its attachment, then the
\* check lists of the card that was returned (it has none).
createCardTopic(lists, labels, now, position, newId, topic) ==
  LET created ==
        << Call("POST", "/cards", topic.id, newId,
                [ idList |-> lists[topic.status],
                  urlSource |-> "",
                  name |-> topic.name,
                  desc |-> generateCardDescriptionTopic(<<>>, topic.lastUpdate, topic.body),
                  pos |-> position,
                  idLabels |-> getTopicLabels(labels, lists, now, topic) ]),
           [Call("POST", "/cards/id/attachments", topic.id, newId, [url |-> topic.url])
              EXCEPT !.dep = 1] >>
      all == updateCardChecklists(topic.id, newId, [checklists |-> <<>>], topic, 1, created)
  IN [i \in 1..Len(all) |-> IF i > 2 /\ all[i].dep = 0 THEN [all[i] EXCEPT !.dep = 1] ELSE all[i]]

\* archiveCard: the card is closed unless it is closed already.
archiveCard(pc) ==
  IF pc.card.closed = FALSE
  THEN <<Call("PUT", "/cards/id", 0, pc.id, [closed |-> "true"])>>
  ELSE <<>>

(***************************************************************************)
(* The board service: the effect of one successful call.                   *)
(***************************************************************************)
Deleted == [name |-> <<Tok("deleted", 0)>>, pos |-> 0]

\* PUT /cards/id: the fields sent replace those of the card.
putFields(card, data) ==
  [ card EXCEPT
      !.idList = IF "idList" \in DOMAIN data THEN data.idList ELSE @,
      !.pos = IF "pos" \in DOMAIN data THEN 2 * data.pos ELSE @,
      !.closed = IF "closed" \in DOMAIN data THEN data.closed = "true" ELSE @,
      !.name = IF "name" \in DOMAIN data THEN data.name ELSE @,
      !.desc = IF "desc" \in DOMAIN data THEN data.desc ELSE @ ]

\* The change of one card by a call about that card.
applyToCard(card, call) ==
  LET cl == LastChecklist(card, call.cl)
  IN CASE call.path = "/cards/id" -> putFields(card, call.data)
       [] call.path = "/cards/id/idLabels/id" ->
            [card EXCEPT !.labels = @ \ {call.label}]
       [] call.path = "/cards/id/idLabels" ->
            [card EXCEPT !.labels = @ \cup {call.label}]
       [] call.path = "/cards/id/attachments" ->
            [card EXCEPT !.attachments = Append(@, call.data.url)]
       [] call.path = "/cards/id/checklists" ->
            [card EXCEPT !.checklists = Append(@, [name |-> call.cl, items |-> <<>>])]
       [] call.path = "/checklists/id/checkItems" ->
            [card EXCEPT !.checklists[cl].items =
               Append(@, [name |-> call.data.name, pos |-> call.data.pos])]
       [] call.path = "/cards/id/checklist/id/checkItem/id" ->
            [card EXCEPT !.checklists[cl].items[call.item] =
               [name |-> call.data.name, pos |-> call.data.pos]]
       [] call.path = "/checklists/id/checkItems/id" ->
            [card EXCEPT !.checklists[cl].items[call.item] = Deleted]
       [] OTHER -> card

applyCall(b, call) ==
  CASE call.path = "/lists" -> [b EXCEPT !.lists = @ \cup {call.data.name}]
    [] call.path = "/labels" -> [b EXCEPT !.labels = @ \cup {call.data.name}]
    [] call.path = "/cards" ->
         [b EXCEPT !.cards =
            Append(@, Card(call.data.name, call.data.idList, 2 * call.data.pos,
                           Range(call.data.idLabels), call.data.desc, <<>>))]
    [] OTHER -> [b EXCEPT !.cards[call.card] = applyToCard(@, call)]

\* Deleted check items leave the board when the handler is done.
compactCard(card) ==
  [card EXCEPT !.checklists =
     [i \in 1..Len(card.checklists) |->
        [card.checklists[i] EXCEPT !.items = SelectSeq(@, LAMBDA it : it # Deleted)]]]
compact(b) == [b EXCEPT !.cards = [i \in 1..Len(b.cards) |-> compactCard(b.cards[i])]]

\* Call i of a plan is made unless the call it depends on failed or was
\* itself skipped; failed is the set of indices of the calls that fail.
\* A handler that gives up at the first call that fails.
madeUntilFailure(plan, failed, i) == \A j \in 1..(i - 1) : j \notin failed

RECURSIVE made(_, _, _)
made(plan, failed, i) ==
  plan[i].dep = 0 \/ (plan[i].dep \notin failed /\ made(plan, failed, plan[i].dep))

\* The board after the calls of a plan, and the calls made with their outcome.
RECURSIVE execFrom(_, _, _, _, _)
execFrom(b, plan, failed, i, log) ==
  IF i > Len(plan) THEN [board |-> compact(b), log |-> log]
  ELSE IF ~made(plan, failed, i) THEN execFrom(b, plan, failed, i + 1, log)
  ELSE IF i \in failed
  THEN execFrom(b, plan, failed, i + 1, Append(log, [call |-> plan[i], ok |-> FALSE]))
  ELSE execFrom(applyCall(b, plan[i]), plan, failed, i + 1,
                Append(log, [call |-> plan[i], ok |-> TRUE]))
exec(b, plan, failed) == execFrom(b, plan, failed, 1, <<>>)

\* The sets of at most n elements of S.
RECURSIVE UpTo(_, _)
UpTo(S, n) ==
  IF n <= 0 THEN {{}}
  ELSE LET smaller == UpTo(S, n - 1)
       IN smaller \cup {F \cup {x} : F \in smaller, x \in S}

\* The sets of calls of a plan that may fail with a budget of n failures:
\* only calls that are made can fail.
Failing(plan, n) ==
  {F \in UpTo(1..Len(plan), n) : \A i \in F : made(plan, F, i)}

(***************************************************************************)
(* Provisioning and matching.                                              *)
(***************************************************************************)
\* A plan in which a failed call ends the handler: each call depends on
\* the one before it.
chained(plan) == [i \in 1..Len(plan) |-> [plan[i] EXCEPT !.dep = i - 1]]

\* prepareLists: the status lists missing on the board are created.
prepareLists(c, snapshot) ==
  LET missing == SelectSeq(ConfigLists(c), LAMBDA item : item.name \notin snapshot.lists)
  IN chained([i \in 1..Len(missing) |->
       Call("POST", "/lists", 0, 0,
            [name |-> missing[i].name, pos |-> missing[i].position])])

\* this.lists after prepareLists: status to list for disasters and topics,
\* list id to list for countries.
listsOf(c, snapshot) ==
  IF c = "countries" THEN [l \in snapshot.lists |-> l]
  ELSE [st \in Statuses(c) |->
          ConfigLists(c)[CHOOSE i \in 1..Len(ConfigLists(c)) :
                           ConfigLists(c)[i].status = st].name]

\* The names prepareLabels collects: configuration, then entity tags.
RECURSIVE allTags(_)
allTags(es) == IF es = <<>> THEN <<>> ELSE Head(es).tags \o allTags(Tail(es))
labelNames(c, es) == MapKeys(ConfigLabels(c) \o allTags(es))

\* prepareLabels: the labels missing on the board are created; board labels
\* without a name are not looked at.
\* A prepareLabels that creates every label it has collected.
prepareLabelsAll(c, snapshot, es) ==
  chained([i \in 1..Len(labelNames(c, es)) |->
     Call("POST", "/labels", 0, 0,
          [name |-> labelNames(c, es)[i],
           color |-> IF labelNames(c, es)[i] \in Range(ConfigLabels(c)) THEN "color" ELSE ""])])

prepareLabels(c, snapshot, es) ==
  LET missing == SelectSeq(labelNames(c, es), LAMBDA n : n \notin (snapshot.labels \ {""}))
  IN chained([i \in 1..Len(missing) |->
       Call("POST", "/labels", 0, 0,
            [name |-> missing[i],
             color |-> IF missing[i] \in Range(ConfigLabels(c)) THEN "color" ELSE ""])])

\* The first attachment of a card that matches the url pattern (0: none).
firstMatch(c, card) ==
  LET hits == {i \in 1..Len(card.attachments) : urlPatternTest(c, card.attachments[i])}
  IN IF hits = {} THEN 0 ELSE CHOOSE i \in hits : \A j \in hits : i <= j

\* updateBoard, first loop: the map from attachment url to prepared card.
RECURSIVE buildCards(_, _, _, _)
buildCards(c, snapCards, k, acc) ==
  IF k > Len(snapCards) THEN acc
  ELSE LET entry == snapCards[k]
           m == firstMatch(c, entry.card)
       IN buildCards(c, snapCards, k + 1,
            IF m = 0 THEN acc
            ELSE MapSet(acc, [key |-> entry.card.attachments[m],
                              pc |-> prepareCard(c, entry.id, entry.card)]))

\* The cards a board fetch returns: only the open ones for the countries
\* connector (cards: 'open'), all cards for the disasters connector
\* (cards: 'all') and for the topics connector, whose request names no
\* filter and whose updateCard expects archived cards among them.
snapshotCards(c, b) ==
  SelectSeq([i \in 1..Len(b.cards) |-> [id |-> i, card |-> b.cards[i]]],
            LAMBDA entry : c # "countries" \/ ~entry.card.closed)

\* The desired label set updateCardLabels works with.
desiredLabels(c, lists, labels, now, pc, e) ==
  IF c = "disasters" THEN desiredLabelsDisaster(labels, now, pc, e)
  ELSE IF c = "topics" THEN getTopicLabels(labels, lists, now, e)
  ELSE desiredLabelsCountry(labels, now, pc, e)

\* updateBoard, one entity: update of the matched card or creation.
\* An updateBoard that makes no card for an entity without a card.
processEntityNoCreate(c, lists, labels, now, cardMap, newId, e) ==
  LET position == maxIndex - e.id
  IN IF MapHas(cardMap, e.url)
     THEN IF c = "disasters"
          THEN updateCardDisaster(lists, labels, now, position, MapGet(cardMap, e.url).pc, e)
          ELSE IF c = "topics"
          THEN updateCardTopic(lists, labels, now, position, MapGet(cardMap, e.url).pc, e)
          ELSE updateCardCountry(labels, now, MapGet(cardMap, e.url).pc, e)
     ELSE <<>>

\* An updateBoard that makes a card for a country without a card too.
processEntityAllCreate(c, lists, labels, now, cardMap, newId, e) ==
  LET position == maxIndex - e.id
  IN IF MapHas(cardMap, e.url)
     THEN IF c = "disasters"
          THEN updateCardDisaster(lists, labels, now, position, MapGet(cardMap, e.url).pc, e)
          ELSE IF c = "topics"
          THEN updateCardTopic(lists, labels, now, position, MapGet(cardMap, e.url).pc, e)
          ELSE updateCardCountry(labels, now, MapGet(cardMap, e.url).pc, e)
     ELSE IF c = "disasters"
          THEN createCardDisaster(lists, labels, now, position, newId, e)
          ELSE IF c = "topics"
          THEN createCardTopic(lists, labels, now, position, newId, e)
          ELSE << Call("POST", "/cards", e.id, newId,
                       [ idList |-> OtherList,
                         urlSource |-> "",
                         name |-> e.name,
                         desc |-> generateCardDescriptionCountry(e, formatDate(now)),
                         pos |-> position,
                         idLabels |-> getCountryLabels(labels, e) ]),
                  [Call("POST", "/cards/id/attachments", e.id, newId, [url |-> e.url])
                     EXCEPT !.dep = 1] >>

processEntity(c, lists, labels, now, cardMap, newId, e) ==
  LET position == maxIndex - e.id
  IN IF MapHas(cardMap, e.url)
     THEN IF c = "disasters"
          THEN updateCardDisaster(lists, labels, now, position, MapGet(cardMap, e.url).pc, e)
          ELSE IF c = "topics"
          THEN updateCardTopic(lists, labels, now, position, MapGet(cardMap, e.url).pc, e)
          ELSE updateCardCountry(labels, now, MapGet(cardMap, e.url).pc, e)
     ELSE IF c = "disasters"
          THEN createCardDisaster(lists, labels, now, position, newId, e)
          ELSE IF c = "topics"
          THEN createCardTopic(lists, labels, now, position, newId, e)
          ELSE <<>>

\* updateBoard, last loop of the disasters connector: the cards left in the
\* map that sit in a status list are archived.
\* A last loop that does not look at the list of the card.
RECURSIVE archiveRemainingAll(_, _, _)
archiveRemainingAll(lists, cardMap, k) ==
  IF k > Len(cardMap) THEN <<>>
  ELSE archiveCard(cardMap[k].pc) \o archiveRemainingAll(lists, cardMap, k + 1)
RECURSIVE archiveRemaining(_, _, _)
archiveRemaining(lists, cardMap, k) ==
  IF k > Len(cardMap) THEN <<>>
  ELSE (IF \E st \in DOMAIN lists : lists[st] = cardMap[k].pc.card.idList
        THEN archiveCard(cardMap[k].pc) ELSE <<>>)
       \o archiveRemaining(lists, cardMap, k + 1)

(***************************************************************************)
(* State.                                                                  *)
(***************************************************************************)
VARIABLES
  conn,        \* the connector that runs
  today,       \* the current day
  upstream,    \* ids and fields of the entities the API returns
  board,       \* the board in the board service: lists, labels, cards
  run,         \* number of runs done
  pc,          \* the handler process() calls next
  ents,        \* this.disasters, this.topics, this.countries
  snap,        \* this.board
  lists,       \* this.lists
  labels,      \* this.labels (names)
  cards,       \* the map of updateBoard: attachment url to card
  idx,         \* index of the next entity in the loop of updateBoard
  calls,       \* the mutating calls of the current run, with their outcome
  failures,    \* number of failed calls so far
  edits,       \* number of outside changes so far
  lastClean,   \* the last run ended with every call succeeding
  dirty,       \* upstream, board or day changed since the last run ended
  repeat,      \* the current run repeats a clean run on unchanged inputs
  createdFor,  \* per entity: the card created for it with its attachment
  orphanFor,   \* per entity: the card created for it whose attachment failed,
               \* and the run that created it
  matched,     \* per entity: the card updated for it in the current run
  fatal,       \* the handler whose exception ended the current run, or "none"
  gets,        \* number of fetches from the board service in the current run
  ideal,       \* the board had every call of the current run succeeded
  prev,        \* the run before: its failed calls, the cards it archived, its
               \* ideal board, and whether nothing changed since it ended
  overview     \* the overview manager: its fields and the position of process()
               \* and of the getOverviewBoard() it started

vars == << conn, today, upstream, board, run, pc, ents, snap, lists, labels, cards, idx,
           calls, failures, edits, lastClean, dirty, repeat, createdFor, orphanFor, matched,
           fatal, gets, ideal, prev, overview >>

envVars == << conn, today, upstream >>
runVars == << ents, snap, lists, labels, cards, idx >>

(***************************************************************************)
(* Initial boards.                                                         *)
(***************************************************************************)
FreshBoard == [lists |-> {OtherList, "ALERT"}, labels |-> {"flood"}, cards |-> <<>>]

ProvisionedBoard(c) ==
  [ lists |-> ConfigListNames(c) \cup {OtherList},
    labels |-> Range(ConfigLabels(c)) \cup {"Flood", "Custom", ""},
    cards |-> <<>> ]

\* The day the cards of the initial boards were written, and the first day.
CardDay == 0
FirstDay == 10

\* Earlier days on which a card may have been written: on FirstDay the
\* profile update is 7, 14 and 21 days old.
EarlierDays == {FirstDay - 7, FirstDay - 14, FirstDay - 21}

\* The card of the default entity as the connector wrote it on CardDay;
\* the countries connector makes no cards, its cards are made by hand.
StandardCard(c, id) ==
  LET name == IF id = 100 THEN "Alpha" ELSE "Beta"
  IN IF c = "disasters"
     THEN Card(name, "Alert", 2 * (maxIndex - id), {"Flood"},
               profileUpdateHeader \o formatDate(CardDay) \o profileHeader \o <<P(1)>>
                 \o glideHeader,
               <<Url("http", "term", id)>>)
     ELSE IF c = "topics"
     THEN [Card(name, "Published", 2 * (maxIndex - id), {"Flood", "Published"},
                lastUpdateHeader \o formatDateTime(CardDay) \o introductionHeader \o <<P(1)>>,
                <<Url("https", "node", id)>>)
             EXCEPT !.checklists = << [name |-> "Rivers", items |-> <<>>],
                                      [name |-> "Sections", items |-> <<>>],
                                      [name |-> "Resources", items |-> <<>>] >>]
     ELSE Card(name, OtherList, 2, {},
               profileUpdateHeader \o formatDate(CardDay) \o profileHeader \o <<P(1)>>,
               <<Url("http", "term", id)>>)

OtherScheme(url) == [url EXCEPT !.scheme = IF @ = "http" THEN "https" ELSE "http"]

\* A label of the configuration that the default entity does not call for.
StaleLabel(c) ==
  IF c = "disasters" THEN lastReportOlderThan1Week
  ELSE IF c = "topics" THEN "Featured"
  ELSE profileUpdateOlderThan3Weeks

\* The card of an entity that left upstream long ago, moved to another list.
FormerCard(c) ==
  [StandardCard(c, 102) EXCEPT !.name = "Gamma", !.idList = OtherList]

\* Check items of links the topic had once: the first link is river-1 under
\* another title, the second one is gone.
FormerItems ==
  << [name |-> generateMarkdownLink(LinkUrl(1), <<Tok("t", 9)>>), pos |-> 1],
     [name |-> generateMarkdownLink(LinkUrl(5), <<Tok("t", 9)>>), pos |-> 2] >>

\* Check items an editor of the board wrote by hand next to a link item, and
\* the check list of the editor's own that holds them too.
ManualItems ==
  << [name |-> <<Tok("t", 8)>>, pos |-> 1],
     [name |-> generateMarkdownLink(LinkUrl(3), <<Tok("t", 9)>>), pos |-> 2],
     [name |-> linkSeparator \o <<Tok("t", 8)>>, pos |-> 3] >>
ManualChecklist == [name |-> "Notes", items |-> ManualItems]

\* Descriptions of a topic card in which an editor wrote notes: a note that
\* quotes the last-update header before the sections, a note in place of
\* the sections, and the sections in the other order.
NotedDescs(desc) ==
  { <<Tok("note", 1)>> \o lastUpdateHeader \o <<Tok("note", 2)>> \o desc,
    <<Tok("note", 1)>>,
    introductionHeader \o <<P(1)>> \o SubSeq(desc, 1, 2) }

\* The board an earlier run left when it made the card of the first
\* entity and the attachment call failed.
Unattached(c) == <<[StandardCard(c, 100) EXCEPT !.attachments = <<>>]>>
NoOrphan == [card |-> 0, since |-> 0]

InitCards(c) ==
  LET a == StandardCard(c, 100)
      b == StandardCard(c, 101)
  IN { <<a>>,
       <<a, FormerCard(c)>>,
       <<[a EXCEPT !.idList = OtherList]>>,
       <<[a EXCEPT !.desc = <<@[1]>> \o SubSeq(@, 3, Len(@))]>>,
       <<a, [b EXCEPT !.labels = @ \cup {"", StaleLabel(c)}]>>,
       <<a, [a EXCEPT !.name = "Copy"]>>,
       <<[a EXCEPT !.attachments = Append(@, b.attachments[1])]>>,
       <<[a EXCEPT !.attachments = <<OtherScheme(@[1])>>]>>,
       Unattached(c) }
     \cup (IF c # "topics"
           THEN {<<[a EXCEPT !.desc[2] = formatDate(day)[1]]>> : day \in EarlierDays}
           ELSE {})
     \cup (IF c = "topics"
           THEN {<<[a EXCEPT !.desc = d]>> : d \in NotedDescs(a.desc)}
                \cup
                { <<[a EXCEPT !.checklists[1].items = FormerItems]>>,
                  <<[a EXCEPT !.checklists =
                       Append([@ EXCEPT ![3].items = ManualItems], ManualChecklist)]>> }
           ELSE {})

InitBoards(c) ==
  {FreshBoard} \cup {[ProvisionedBoard(c) EXCEPT !.cards = cs] : cs \in InitCards(c)}

Init ==
  /\ conn \in Connectors
  /\ today = FirstDay
  /\ upstream \in {[ids |-> ids, ent |-> [id \in EntityIds |-> DefaultEntity(conn, id)]] :
                     ids \in {{100, 101}, {101}}}
  /\ board \in InitBoards(conn)
  /\ run = 0
  /\ pc = "idle"
  /\ ents = <<>>
  /\ snap = [lists |-> {}, labels |-> {}, cards |-> <<>>, loaded |-> FALSE]
  /\ lists = <<>>
  /\ labels = {}
  /\ cards = <<>>
  /\ idx = 0
  /\ calls = <<>>
  /\ failures = 0
  /\ edits = 0
  /\ lastClean = FALSE
  /\ dirty = FALSE
  /\ repeat = FALSE
  /\ createdFor = [id \in EntityIds |-> 0]
  /\ orphanFor = [id \in EntityIds |->
                   IF id = 100 /\ board.cards = Unattached(conn)
                   THEN [card |-> 1, since |-> -1]
                   ELSE NoOrphan]
  /\ matched = [id \in EntityIds |-> 0]
  /\ fatal = "none"
  /\ gets = 0
  /\ ideal = board
  /\ prev = [failed |-> {}, archived |-> {}, ideal |-> board, same |-> FALSE]
  /\ overview = [overviewBoard |-> "null", boards |-> <<>>, pending |-> 0,
                 process |-> "idle", getOverviewBoard |-> "idle", logged |-> "none",
                 failed |-> FALSE]

(***************************************************************************)
(* One run: process() calls the five handlers in turn; an exception of     *)
(* one of them ends the run.                                               *)
(***************************************************************************)
AllOk(log) == \A i \in 1..Len(log) : log[i].ok

\* The run ends: by the end of updateBoard or by a caught exception.
EndRun(clean) ==
  /\ pc' = "idle"
  /\ run' = run + 1
  /\ lastClean' = clean
  /\ dirty' = FALSE

\* getDisasters, getTopics, getCountries.  The fetch may fail; the
\* countries connector also gives up on an empty answer.
GetEntities ==
  /\ pc = "idle"
  /\ run < MaxRuns
  /\ calls' = <<>>
  /\ repeat' = (lastClean /\ ~dirty)
  /\ matched' = [id \in EntityIds |-> 0]
  /\ gets' = 0
  /\ ideal' = board
  /\ prev' = [failed |-> {calls[i].call : i \in {j \in 1..Len(calls) : ~calls[j].ok}},
              archived |-> {calls[i].call.card :
                              i \in {j \in 1..Len(calls) :
                                       /\ calls[j].ok
                                       /\ calls[j].call.path = "/cards/id"
                                       /\ calls[j].call.ent = 0}},
              ideal |-> ideal, same |-> run > 0 /\ ~dirty]
  /\ \/ /\ ~(conn = "countries" /\ upstream.ids = {})
        /\ ents' = getEntities(conn, upstream)
        /\ pc' = "getBoard"
        /\ fatal' = "none"
        /\ UNCHANGED << run, lastClean, dirty, failures >>
     \/ /\ conn = "countries" /\ upstream.ids = {}
        /\ ents' = ents
        /\ fatal' = "getEntities"
        /\ EndRun(FALSE)
        /\ UNCHANGED failures
     \/ /\ failures < MaxFailures
        /\ failures' = failures + 1
        /\ ents' = ents
        /\ fatal' = "getEntities"
        /\ EndRun(FALSE)
  /\ UNCHANGED << envVars, board, snap, lists, labels, cards, idx, edits, createdFor, orphanFor,
                  overview >>

\* getBoard.  The fetch of the board may fail; in the topics connector the
\* fetch of the cards may fail too, which leaves board.cards unset.
GetBoard ==
  /\ pc = "getBoard"
  /\ \/ /\ snap' = [lists |-> board.lists, labels |-> board.labels,
                    cards |-> snapshotCards(conn, board), loaded |-> TRUE]
        /\ pc' = "prepareLists"
        /\ gets' = gets + (IF conn = "topics" THEN 2 ELSE 1)
        /\ UNCHANGED << run, lastClean, dirty, failures, fatal >>
     \/ /\ conn = "topics"
        /\ failures < MaxFailures
        /\ failures' = failures + 1
        /\ snap' = [lists |-> board.lists, labels |-> board.labels,
                    cards |-> <<>>, loaded |-> FALSE]
        /\ pc' = "prepareLists"
        /\ gets' = gets + 2
        /\ UNCHANGED << run, lastClean, dirty, fatal >>
     \/ /\ failures < MaxFailures
        /\ failures' = failures + 1
        /\ snap' = snap
        /\ gets' = gets + 1
        /\ fatal' = "getBoard"
        /\ EndRun(FALSE)
  /\ UNCHANGED << envVars, board, ents, lists, labels, cards, idx, calls, edits,
                  repeat, createdFor, orphanFor, matched, ideal, prev, overview >>

\* The calls of a handler are made; some of them fail.
Made(plan, failed) ==
  /\ board' = exec(board, plan, failed).board
  /\ calls' = calls \o exec(board, plan, failed).log
  /\ failures' = failures + Cardinality(failed)
  /\ ideal' = exec(ideal, plan, {}).board

\* prepareLists.  A list that cannot be created ends the run.
PrepareListsWith(plan) ==
  \E failed \in Failing(plan, MaxFailures - failures) :
    /\ Made(plan, failed)
    /\ IF failed = {}
       THEN /\ lists' = listsOf(conn, snap)
            /\ pc' = "prepareLabels"
            /\ UNCHANGED << run, lastClean, dirty, fatal >>
       ELSE /\ lists' = lists
            /\ fatal' = "prepareLists"
            /\ EndRun(FALSE)

PrepareLists ==
  /\ pc = "prepareLists"
  /\ PrepareListsWith(prepareLists(conn, snap))
  /\ UNCHANGED << envVars, ents, snap, labels, cards, idx, edits, repeat, gets,
                  createdFor, orphanFor, matched, prev, overview >>

PrepareLabelsWithLogged(plan) ==
  \E failed \in Failing(plan, MaxFailures - failures) :
    /\ Made(plan, failed)
    /\ labels' = Range(labelNames(conn, ents))
    /\ pc' = "updateBoard"
    /\ UNCHANGED << run, lastClean, dirty, fatal >>

\* prepareLabels.  A label that cannot be created ends the run.
PrepareLabelsWith(plan) ==
  \E failed \in Failing(plan, MaxFailures - failures) :
    /\ Made(plan, failed)
    /\ IF failed = {}
       THEN /\ labels' = Range(labelNames(conn, ents))
            /\ pc' = "updateBoard"
            /\ UNCHANGED << run, lastClean, dirty, fatal >>
       ELSE /\ labels' = labels
            /\ fatal' = "prepareLabels"
            /\ EndRun(FALSE)

PrepareLabels ==
  /\ pc = "prepareLabels"
  /\ PrepareLabelsWith(prepareLabels(conn, snap, ents))
  /\ UNCHANGED << envVars, ents, snap, lists, cards, idx, edits, repeat, gets,
                  createdFor, orphanFor, matched, prev, overview >>

\* updateBoard, first loop.  Without the cards of the board it throws.
\* An updateBoard that takes a board without cards for an empty board.
MatchCardsOfNone ==
  /\ pc = "updateBoard"
  /\ cards' = IF snap.loaded THEN buildCards(conn, snap.cards, 1, <<>>) ELSE <<>>
  /\ idx' = 1
  /\ pc' = "entities"
  /\ UNCHANGED << run, lastClean, dirty, fatal >>
  /\ UNCHANGED << envVars, board, ents, snap, lists, labels, calls, failures, edits,
                  gets, repeat, createdFor, orphanFor, matched, ideal, prev, overview >>

MatchCards ==
  /\ pc = "updateBoard"
  /\ IF snap.loaded
     THEN /\ cards' = buildCards(conn, snap.cards, 1, <<>>)
          /\ idx' = 1
          /\ pc' = "entities"
          /\ UNCHANGED << run, lastClean, dirty, fatal >>
     ELSE /\ UNCHANGED << cards, idx >>
          /\ fatal' = "updateBoard"
          /\ EndRun(FALSE)
  /\ UNCHANGED << envVars, board, ents, snap, lists, labels, calls, failures, edits,
                  gets, repeat, createdFor, orphanFor, matched, ideal, prev, overview >>

\* updateBoard, second loop: one entity.
ProcessEntityWith(e, newId, plan) ==
  \E failed \in Failing(plan, MaxFailures - failures) :
    /\ Made(plan, failed)
    /\ cards' = IF conn = "disasters" THEN MapDelete(cards, e.url) ELSE cards
    /\ matched' = [matched EXCEPT ![e.id] =
                     IF MapHas(cards, e.url) THEN MapGet(cards, e.url).pc.id ELSE 0]
    /\ createdFor' =
         IF ~MapHas(cards, e.url) /\ Len(plan) >= 2 /\ failed \cap {1, 2} = {}
         THEN [createdFor EXCEPT ![e.id] = newId]
         ELSE createdFor
    /\ orphanFor' =
         IF ~MapHas(cards, e.url) /\ Len(plan) >= 2 /\ 1 \notin failed /\ 2 \in failed
         THEN [orphanFor EXCEPT ![e.id] = [card |-> newId, since |-> run]]
         ELSE orphanFor

ProcessEntity ==
  /\ pc = "entities"
  /\ idx <= Len(ents)
  /\ ProcessEntityWith(ents[idx], Len(board.cards) + 1,
                       processEntity(conn, lists, labels, today, cards,
                                     Len(board.cards) + 1, ents[idx]))
  /\ idx' = idx + 1
  /\ UNCHANGED << envVars, run, pc, ents, snap, lists, labels, edits, lastClean, dirty,
                  fatal, gets, repeat, prev, overview >>

\* updateBoard, end: the disasters connector archives the cards left.
FinishWith(plan) ==
  \E failed \in Failing(plan, MaxFailures - failures) :
    /\ Made(plan, failed)
    /\ EndRun(AllOk(calls'))

Finish ==
  /\ pc = "entities"
  /\ idx > Len(ents)
  /\ FinishWith(IF conn = "disasters" THEN archiveRemaining(lists, cards, 1) ELSE <<>>)
  /\ UNCHANGED << envVars, ents, snap, lists, labels, cards, idx, edits, repeat, fatal,
                  gets, createdFor, orphanFor, matched, prev, overview >>

(***************************************************************************)
(* The outside world, between two runs.                                    *)
(***************************************************************************)
\* Days that pass at once between two runs.
DaysPassing == 8

Edited ==
  /\ pc = "idle"
  /\ edits < MaxEdits
  /\ edits' = edits + 1
  /\ dirty' = TRUE

\* Upstream, an entity appears or disappears, one field of the first
\* entity changes, or the status of the second entity changes.
UpstreamEdit ==
  /\ Edited
  /\ \/ \E id \in EntityIds :
          upstream' = [upstream EXCEPT !.ids =
                         IF id \in @ THEN @ \ {id} ELSE @ \cup {id}]
     \/ /\ 100 \in upstream.ids
        /\ \E e \in Variants(conn, upstream.ent[100]) :
             upstream' = [upstream EXCEPT !.ent[100] = e]
     \/ /\ 101 \in upstream.ids
        /\ \E st \in Statuses(conn) \ {upstream.ent[101].status} :
             upstream' = [upstream EXCEPT !.ent[101].status = st]
  /\ UNCHANGED << conn, today, board, run, pc, runVars, calls, failures, lastClean,
                  fatal, gets, repeat, createdFor, orphanFor, matched, ideal, prev, overview >>

\* A human changes one card of the board by hand.
HumanEdits(card) ==
  { [card EXCEPT !.idList = OtherList],
    [card EXCEPT !.labels = @ \cup {"Custom"}],
    [card EXCEPT !.name = "Renamed"],
    [card EXCEPT !.closed = TRUE],
    [card EXCEPT !.desc = <<>>],
    [card EXCEPT !.pos = @ - 1] } \ {card}

HumanEdit ==
  /\ Edited
  /\ \E k \in 1..Len(board.cards) :
       \E card \in HumanEdits(board.cards[k]) :
         board' = [board EXCEPT !.cards[k] = card, !.labels = @ \cup card.labels]
  /\ UNCHANGED << envVars, run, pc, runVars, calls, failures, lastClean, repeat, fatal,
                  gets, createdFor, orphanFor, matched, ideal, prev, overview >>

\* Time passes.
DayPasses ==
  /\ Edited
  /\ today' = today + DaysPassing
  /\ UNCHANGED << conn, upstream, board, run, pc, runVars, calls, failures, lastClean,
                  fatal, gets, repeat, createdFor, orphanFor, matched, ideal, prev, overview >>

Next ==
  \/ GetEntities
  \/ GetBoard
  \/ PrepareLists
  \/ PrepareLabels
  \/ MatchCards
  \/ ProcessEntity
  \/ Finish
  \/ UpstreamEdit
  \/ HumanEdit
  \/ DayPasses

Spec == Init /\ [][Next]_vars


(***************************************************************************)
(* The overview connector.  process() awaits getBoards(); getBoards()      *)
(* calls getOverviewBoard() without awaiting it, so the requests of the    *)
(* two run side by side and their answers arrive in any order.             *)
(***************************************************************************)
\* process() once getBoards() has returned: nothing when the overview board
\* is still null; otherwise prepare(), which throws on a board whose cards
\* were not loaded (caught and logged by process()), then update().
getBoardsReturns(o) ==
  IF o.overviewBoard = "null"
  THEN [o EXCEPT !.process = "skipped"]
  ELSE IF o.overviewBoard = "noCards" \/ \E b \in 1..Len(o.boards) : ~o.boards[b]
  THEN [o EXCEPT !.process = "caught", !.logged = "prepare"]
  ELSE [o EXCEPT !.process = "update"]

\* process() starts getBoards(), which starts getOverviewBoard() (the
\* request for the overview board is sent) and requests the boards of the
\* organization.
process ==
  /\ overview.process = "idle"
  /\ overview' = [overview EXCEPT !.process = "getBoards", !.getOverviewBoard = "board"]
  /\ UNCHANGED << envVars, runVars, board, run, pc, calls, failures, edits, lastClean, dirty,
                  repeat, createdFor, orphanFor, matched, fatal, gets, ideal, prev >>

\* The answers to the requests of getBoards().  To the request for the
\* boards of the organization: n boards that are not excluded, or an error,
\* which process() catches and logs.  To the request for the cards of one of
\* these boards (getBoardData): the cards, or an error, which getBoardData
\* logs, leaving the board without cards; the board is pushed, and after the
\* last board getBoards() returns.
getBoards ==
  /\ \/ /\ overview.process = "getBoards"
        /\ \E n \in 0..MaxBoards :
             overview' = IF n = 0
                         THEN getBoardsReturns(overview)
                         ELSE [overview EXCEPT !.process = "getBoardData", !.pending = n]
     \/ /\ overview.process = "getBoards"
        /\ overview' = [overview EXCEPT !.process = "caught", !.logged = "getBoards",
                                        !.failed = TRUE]
     \/ /\ overview.process = "getBoardData"
        /\ \E ok \in BOOLEAN :
             LET o == [overview EXCEPT !.boards = Append(@, ok), !.pending = @ - 1,
                                       !.failed = @ \/ ~ok]
             IN  overview' = IF o.pending = 0 THEN getBoardsReturns(o) ELSE o
  /\ UNCHANGED << envVars, runVars, board, run, pc, calls, failures, edits, lastClean, dirty,
                  repeat, createdFor, orphanFor, matched, fatal, gets, ideal, prev >>

\* The answers to the requests of getOverviewBoard(): the board, then its
\* cards, then this.overviewBoard is set.  An error for the cards is logged by
\* getBoardData; an error for the board rejects the promise nobody awaits,
\* which the runtime reports or ends the program on.
getOverviewBoard ==
  /\ overview.process # "crashed"
  /\ \/ /\ overview.getOverviewBoard = "board"
        /\ \/ overview' = [overview EXCEPT !.getOverviewBoard = "cards"]
           \/ overview' = [overview EXCEPT !.getOverviewBoard = "rejected", !.failed = TRUE]
           \/ /\ overview.process \in {"getBoards", "getBoardData"}
              /\ overview' = [overview EXCEPT !.getOverviewBoard = "rejected",
                                              !.failed = TRUE, !.process = "crashed"]
     \/ /\ overview.getOverviewBoard = "cards"
        /\ \E ok \in BOOLEAN :
             overview' = [overview EXCEPT !.getOverviewBoard = "done",
                                          !.overviewBoard = IF ok THEN "loaded" ELSE "noCards",
                                          !.failed = @ \/ ~ok]
  /\ UNCHANGED << envVars, runVars, board, run, pc, calls, failures, edits, lastClean, dirty,
                  repeat, createdFor, orphanFor, matched, fatal, gets, ideal, prev >>

\* The overview connector runs on its own; the other connectors stay as
\* constructed.
InitOverview ==
  /\ Init
  /\ conn = "disasters"
  /\ board = FreshBoard
  /\ upstream.ids = {101}

SpecOverview == InitOverview /\ [][process \/ getBoards \/ getOverviewBoard]_vars

(***************************************************************************)
(* Properties.                                                             *)
(***************************************************************************)
\* The calls of the current run on a path, with a method.
CallsOf(m, path) ==
  {i \in 1..Len(calls) : calls[i].call.m = m /\ calls[i].call.path = path}

\* C1: when the disasters connector runs a second time right after a run in
\* which every call succeeded, with upstream, board and day unchanged, the
\* second run makes no mutating call.
C1_DisastersIdempotent ==
  (conn = "disasters" /\ repeat) => calls = <<>>

\* C2: when the topics connector runs a second time right after a run in
\* which every call succeeded, with upstream, board and day unchanged, the
\* second run makes no mutating call, check lists and check items included.
C2_TopicsIdempotent ==
  (conn = "topics" /\ repeat) => calls = <<>>

\* C3: when the countries connector runs a second time right after a run in
\* which every call succeeded, with upstream, board and day unchanged, the
\* second run makes no mutating call.
C3_CountriesIdempotent ==
  (conn = "countries" /\ repeat) => calls = <<>>

\* The map of updateBoard as its first loop built it from the board fetched.
AllCards == buildCards(conn, snap.cards, 1, <<>>)

\* Card k as it was fetched, and as prepareCard prepared it.
SnapCard(k) == snap.cards[CHOOSE j \in 1..Len(snap.cards) : snap.cards[j].id = k].card
PreparedOf(k) == AllCards[CHOOSE j \in 1..Len(AllCards) : AllCards[j].pc.id = k].pc
InMap(k) == \E j \in 1..Len(AllCards) : AllCards[j].pc.id = k

\* The entity of the run with an id; the entities updateBoard has handled.
Entity(e) == ents[CHOOSE i \in 1..Len(ents) : ents[i].id = e]
Handled == IF pc = "entities" THEN 1..(idx - 1) ELSE {}

\* The calls of the current run about a label of card k.
LabelCalls(k, m, n) ==
  {i \in 1..Len(calls) : /\ calls[i].call.card = k
                         /\ calls[i].call.m = m
                         /\ calls[i].call.label = n
                         /\ calls[i].call.path \in {"/cards/id/idLabels/id",
                                                    "/cards/id/idLabels"}}

\* The calls of the current run that archive a card.
ArchiveCalls ==
  {i \in CallsOf("PUT", "/cards/id") :
     /\ "closed" \in DOMAIN calls[i].call.data
     /\ calls[i].call.data.closed = "true"}

LastKeyed(url) ==
  LET keyed == {j \in 1..Len(snap.cards) :
                  \E a \in 1..Len(snap.cards[j].card.attachments) :
                    /\ snap.cards[j].card.attachments[a] = url
                    /\ \A b \in 1..(a - 1) :
                         snap.cards[j].card.attachments[b].kind # UrlKind(conn)}
  IN IF keyed = {} THEN 0
     ELSE snap.cards[CHOOSE j \in keyed : \A j2 \in keyed : j2 <= j].id

\* C5 as stated: every card that has an attachment equal to the canonical
\* url of a handled entity is the card matched to that entity, and no two
\* entities are matched to one card.
C5_MatchingOneToOne ==
  \A i \in Handled :
    /\ \A j \in 1..Len(snap.cards) :
         (\E a \in 1..Len(snap.cards[j].card.attachments) :
            snap.cards[j].card.attachments[a] = ents[i].url)
         => matched[ents[i].id] = snap.cards[j].id
    /\ \A i2 \in Handled :
         (matched[ents[i].id] # 0 /\ matched[ents[i2].id] = matched[ents[i].id]) => i2 = i

\* C5 amended: a handled entity is matched to the last fetched card whose
\* first pattern-matching attachment equals the canonical url of the entity
\* (to none when there is no such card), and no two entities are matched to
\* one card.
C5_MatchingLastCardFirstAttachment ==
  \A i \in Handled :
    /\ matched[ents[i].id] = LastKeyed(ents[i].url)
    /\ \A i2 \in Handled :
         (matched[ents[i].id] # 0 /\ matched[ents[i2].id] = matched[ents[i].id]) => i2 = i

\* C5 happens: an entity was matched to the later of two cards that bear
\* its url.
C5_Witness ==
  \E i \in Handled :
    \E j1, j2 \in 1..Len(snap.cards) :
      /\ j1 < j2
      /\ snap.cards[j1].card.attachments = <<ents[i].url>>
      /\ snap.cards[j2].card.attachments = <<ents[i].url>>
      /\ matched[ents[i].id] = snap.cards[j2].id

\* C6: the disasters connector never removes from a card a label that is
\* not a managed label (a label of the configuration or a tag of the
\* disasters of the run).
C6_UnmanagedLabelsKept ==
  conn = "disasters" =>
    \A i \in CallsOf("DELETE", "/cards/id/idLabels/id") : calls[i].call.label \in labels

\* C7: in the topics and countries connectors a label of a card gets a
\* DELETE only if it is in the managed-label map of the run and absent from
\* the desired set of the card.
C7_OnlyManagedLabelsDeleted ==
  (conn \in {"topics", "countries"} /\ pc = "entities") =>
    \A i \in CallsOf("DELETE", "/cards/id/idLabels/id") :
      /\ calls[i].call.label \in labels
      /\ calls[i].call.label \notin
           Range(desiredLabels(conn, lists, labels, today, PreparedOf(calls[i].call.card),
                               Entity(calls[i].call.ent)))

\* C7 happens: a managed label was removed from a card that also bears a
\* label outside the managed-label map.
C7_Witness ==
  /\ conn \in {"topics", "countries"}
  /\ pc = "entities"
  /\ \E i \in CallsOf("DELETE", "/cards/id/idLabels/id") :
       /\ calls[i].ok
       /\ SnapCard(calls[i].call.card).labels \ labels # {}
       /\ board.cards[calls[i].call.card].labels \ labels
            = SnapCard(calls[i].call.card).labels \ labels

\* C8: in all three connectors, when every label call for a matched card
\* succeeded, the managed labels of the card are the desired set; a managed
\* label of the card that is not desired got one DELETE, a desired label
\* the card lacked got one POST, and any other managed label got no call.
C8_LabelConvergence ==
  \A i \in Handled :
    LET k == matched[ents[i].id]
        old == SnapCard(k).labels
        des == Range(desiredLabels(conn, lists, labels, today, PreparedOf(k), ents[i]))
    IN (k # 0 /\ \A n \in labels, m \in {"DELETE", "POST"} :
                   \A c \in LabelCalls(k, m, n) : calls[c].ok)
       => /\ board.cards[k].labels \cap labels = des
          /\ \A n \in labels :
               /\ Cardinality(LabelCalls(k, "DELETE", n))
                    = IF n \in old \ des THEN 1 ELSE 0
               /\ Cardinality(LabelCalls(k, "POST", n))
                    = IF n \in des \ old THEN 1 ELSE 0

\* C8 happens: for one matched card a label was removed, a label was added
\* and a label that was present and desired was left alone.
C8_Witness ==
  \E i \in Handled :
    LET k == matched[ents[i].id]
    IN /\ k # 0
       /\ \E n \in labels : \E c \in LabelCalls(k, "DELETE", n) : calls[c].ok
       /\ \E n \in labels : \E c \in LabelCalls(k, "POST", n) : calls[c].ok
       /\ \E n \in labels : n \in SnapCard(k).labels \cap board.cards[k].labels

\* The run has handled every entity.
AllHandled == pc = "idle" \/ (pc = "entities" /\ idx > Len(ents))

\* C9: the disasters connector archives a card only if the card was in
\* the map, no disaster of the run was matched to it and it sits in a
\* configured status list; a card left in the map that sits in another
\* list gets no call.
C9_ArchivalOnlyLeftoverManaged ==
  conn = "disasters" =>
    /\ \A i \in ArchiveCalls :
         /\ InMap(calls[i].call.card)
         /\ \A e \in EntityIds : matched[e] # calls[i].call.card
         /\ SnapCard(calls[i].call.card).idList \in ConfigListNames("disasters")
    /\ AllHandled =>
         \A j \in 1..Len(AllCards) :
           ( /\ \A e \in EntityIds : matched[e] # AllCards[j].pc.id
             /\ AllCards[j].pc.card.idList \notin ConfigListNames("disasters") )
           => \A i \in 1..Len(calls) : calls[i].call.card # AllCards[j].pc.id

\* C9 happens: a run archived the card of a disaster that left upstream
\* and made no call for a card left over in another list.
C9_Witness ==
  /\ conn = "disasters"
  /\ pc = "idle"
  /\ \E i \in ArchiveCalls : calls[i].ok /\ board.cards[calls[i].call.card].closed
  /\ \E j \in 1..Len(AllCards) :
       /\ \A e \in EntityIds : matched[e] # AllCards[j].pc.id
       /\ AllCards[j].pc.card.idList = OtherList
       /\ ~board.cards[AllCards[j].pc.id].closed

\* C10: the disasters connector never sends idList or pos for a matched
\* card that sits in a list other than the configured status lists.
C10_UnmanagedListKept ==
  conn = "disasters" =>
    \A i \in CallsOf("PUT", "/cards/id") :
      ( /\ calls[i].call.ent # 0
        /\ SnapCard(calls[i].call.card).idList \notin ConfigListNames("disasters") )
      => /\ "idList" \notin DOMAIN calls[i].call.data
         /\ "pos" \notin DOMAIN calls[i].call.data

\* The field updates of the current run for card k on behalf of entity e.
PutsFor(k, e) ==
  {i \in CallsOf("PUT", "/cards/id") : calls[i].call.card = k /\ calls[i].call.ent = e}

\* The entities handled so far that were matched to a card.
Updated == {i \in Handled : matched[ents[i].id] # 0}

\* C11: the topics connector sends idList for a matched card exactly when
\* the card sits in a configured status list other than the list of the
\* status of the topic, and pos exactly when the card sits in a configured
\* status list and its rounded position is not 10000000 minus the topic id;
\* a card in another list still gets its name, its body and its labels.
C11_TopicsManagedListOnly ==
  conn = "topics" =>
    \A i \in Updated :
      LET k == matched[ents[i].id]
          old == SnapCard(k)
          managed == old.idList \in ConfigListNames("topics")
          moves == managed /\ old.idList # lists[ents[i].status]
          sorts == managed /\ (old.pos + 1) \div 2 # 10000000 - ents[i].id
          des == Range(desiredLabels(conn, lists, labels, today, PreparedOf(k), ents[i]))
      IN /\ \A c \in PutsFor(k, ents[i].id) :
              /\ "idList" \in DOMAIN calls[c].call.data <=> moves
              /\ "pos" \in DOMAIN calls[c].call.data <=> sorts
         /\ (moves \/ sorts) => PutsFor(k, ents[i].id) # {}
         /\ ~managed =>
              /\ old.name # ents[i].name =>
                   \E c \in PutsFor(k, ents[i].id) :
                     /\ "name" \in DOMAIN calls[c].call.data
                     /\ calls[c].call.data.name = ents[i].name
              /\ PreparedOf(k).text # ents[i].body =>
                   \E c \in PutsFor(k, ents[i].id) : "desc" \in DOMAIN calls[c].call.data
              /\ \A n \in des \ old.labels : LabelCalls(k, "POST", n) # {}
              /\ \A w \in 1..Len(ents[i].checklists) :
                   LET wanted == ents[i].checklists[w]
                   IN HasChecklist(old, wanted.name) =>
                        \A x \in 1..Len(wanted.items) :
                          (\A y \in Range(old.checklists[LastChecklist(old, wanted.name)].items) :
                             y.name # wanted.items[x].name)
                          => \E c \in 1..Len(calls) :
                               /\ calls[c].call.card = k
                               /\ calls[c].call.cl = wanted.name
                               /\ calls[c].call.m \in {"POST", "PUT"}
                               /\ calls[c].call.data = [name |-> wanted.items[x].name,
                                                        pos |-> wanted.items[x].position]

\* C11 happens: a topic card that sits in another list got its new name and
\* a label, and neither idList nor pos.
C11_Witness ==
  /\ conn = "topics"
  /\ \E i \in Updated :
       LET k == matched[ents[i].id]
       IN /\ SnapCard(k).idList = OtherList
          /\ \E n \in labels : \E c \in LabelCalls(k, "POST", n) : calls[c].ok
          /\ \E c \in PutsFor(k, ents[i].id) :
               /\ calls[c].ok
               /\ DOMAIN calls[c].call.data = {"name"}
               /\ board.cards[k].name = ents[i].name
               /\ board.cards[k].idList = OtherList

\* C12: in the disasters and topics connectors a matched card whose name
\* differs from the name of its entity gets a field update whose name is
\* the name of the entity, and bears that name once the update succeeded.
C12_NameUpdated ==
  conn \in {"disasters", "topics"} =>
    \A i \in Updated :
      LET k == matched[ents[i].id]
      IN SnapCard(k).name # ents[i].name =>
           /\ PutsFor(k, ents[i].id) # {}
           /\ \A c \in PutsFor(k, ents[i].id) :
                /\ "name" \in DOMAIN calls[c].call.data
                /\ calls[c].call.data.name = ents[i].name
                /\ calls[c].ok => board.cards[k].name = ents[i].name

\* A description carries a date when it opens with the 'Last Profile Update'
\* heading, that date and the 'Profile' heading.
Carries(desc, date) ==
  LET head == profileUpdateHeader \o date \o profileHeader
  IN Len(desc) >= Len(head) /\ SubSeq(desc, 1, Len(head)) = head

\* C13: the description the disasters connector writes for a matched card
\* carries the current date exactly when the overview differs from the
\* profile stored in the card, carries the stored date when only the glide
\* number differs, and no description is written when neither differs.
C13_BodyTimestamp ==
  conn = "disasters" =>
    \A i \in Updated :
      LET k == matched[ents[i].id]
          stored == PreparedOf(k)
          textDiffers == ents[i].body # stored.text
          glideDiffers == ents[i].glide # stored.glide
          puts == PutsFor(k, ents[i].id)
      IN /\ (textDiffers \/ glideDiffers) => puts # {}
         /\ \A c \in puts :
              LET data == calls[c].call.data
              IN /\ "desc" \in DOMAIN data <=> (textDiffers \/ glideDiffers)
                 /\ textDiffers => Carries(data.desc, formatDate(today))
                 /\ (~textDiffers /\ glideDiffers) =>
                      Carries(data.desc, stored.profileUpdate)

\* C13 as amended: when only the glide number differs, the description
\* carries the stored date, or the current date where the stored date is
\* empty.
C13_BodyTimestampOrCurrent ==
  conn = "disasters" =>
    \A i \in Updated :
      LET k == matched[ents[i].id]
          stored == PreparedOf(k)
          textDiffers == ents[i].body # stored.text
          glideDiffers == ents[i].glide # stored.glide
          puts == PutsFor(k, ents[i].id)
      IN /\ (textDiffers \/ glideDiffers) => puts # {}
         /\ \A c \in puts :
              LET data == calls[c].call.data
              IN /\ "desc" \in DOMAIN data <=> (textDiffers \/ glideDiffers)
                 /\ textDiffers => Carries(data.desc, formatDate(today))
                 /\ (~textDiffers /\ glideDiffers) =>
                      Carries(data.desc, IF stored.profileUpdate = <<>>
                                         THEN formatDate(today)
                                         ELSE stored.profileUpdate)

C13_Witness ==
  /\ conn = "disasters"
  /\ \E i \in Updated :
       LET k == matched[ents[i].id]
           stored == PreparedOf(k)
       IN /\ ents[i].body = stored.text
          /\ ents[i].glide # stored.glide
          /\ stored.profileUpdate = formatDate(CardDay)
          /\ today # CardDay
          /\ \E c \in PutsFor(k, ents[i].id) :
               /\ calls[c].ok
               /\ Carries(calls[c].call.data.desc, formatDate(CardDay))
               /\ board.cards[k].desc = calls[c].call.data.desc

\* C14: a run whose entity fetch fails makes no call to the board service;
\* a run whose board fetch fails makes no mutating call; a run in which
\* the creation of a list or of a label fails makes no call about a card.
\* In each case the run is over.
C14_FatalFailuresAbort ==
  /\ fatal # "none" => pc = "idle"
  /\ fatal = "getEntities" => (calls = <<>> /\ gets = 0)
  /\ fatal = "getBoard" => calls = <<>>
  /\ (\E i \in 1..Len(calls) :
        calls[i].call.path \in {"/lists", "/labels"} /\ ~calls[i].ok) =>
       /\ pc = "idle"
       /\ \A i \in 1..Len(calls) :
            /\ calls[i].call.m = "POST"
            /\ calls[i].call.path \in {"/lists", "/labels"}

C14_Witness ==
  /\ fatal = "prepareLabels"
  /\ upstream.ids # {}
  /\ board.cards = <<>>
  /\ \E i \in 1..Len(calls) : calls[i].call.path = "/lists" /\ calls[i].ok
  /\ \E i \in 1..Len(calls) : calls[i].call.path = "/labels" /\ ~calls[i].ok

\* The calls of the current run for an entity, in the order they were made.
CallsFor(e) == SelectSeq(calls, LAMBDA c : c.call.ent = e)

\* A call that adds or removes a label of a card, or adds, updates or
\* deletes a check item.
LabelPaths == {"/cards/id/idLabels/id", "/cards/id/idLabels"}
CheckItemPaths == {"/checklists/id/checkItems", "/cards/id/checklist/id/checkItem/id",
                   "/checklists/id/checkItems/id"}

\* The calls updateCard has to make for the i-th entity and its card.
UpdatePlan(i) ==
  LET e == ents[i]
      p == PreparedOf(matched[e.id])
  IN IF conn = "disasters"
     THEN updateCardDisaster(lists, labels, today, maxIndex - e.id, p, e)
     ELSE IF conn = "topics"
     THEN updateCardTopic(lists, labels, today, maxIndex - e.id, p, e)
     ELSE updateCardCountry(labels, today, p, e)

\* C15: when the only calls that fail for a matched card are label calls
\* and check item calls, every call updateCard has to make for the card
\* is made, in order: the other label calls, the other check item calls of
\* the same check list, the calls of the other check lists and the update
\* of the fields.
C15_ItemFailuresIsolated ==
  \A i \in Updated :
    LET log == CallsFor(ents[i].id)
    IN (\A j \in 1..Len(log) :
          ~log[j].ok => log[j].call.path \in LabelPaths \cup CheckItemPaths)
       => [j \in 1..Len(log) |-> log[j].call] = UpdatePlan(i)

C15_Witness ==
  /\ conn = "topics"
  /\ \E i \in Updated :
       LET log == CallsFor(ents[i].id)
       IN \E a, b, c \in 1..Len(log) :
            /\ a < b /\ b < c
            /\ ~log[a].ok
            /\ log[a].call.path = "/checklists/id/checkItems/id"
            /\ log[b].ok
            /\ log[b].call.path \in CheckItemPaths
            /\ log[b].call.cl = log[a].call.cl
            /\ log[c].ok
            /\ log[c].call.path = "/cards/id"

\* updateBoard came to its end in the last run.
Done == pc = "idle" /\ run > 0 /\ fatal = "none"

\* The entities updateBoard has handled in the current or last run.
Processed == IF Done THEN 1..Len(ents) ELSE Handled

CreatesFor(e) == {i \in CallsOf("POST", "/cards") : calls[i].call.ent = e}
AttachmentsFor(e) ==
  {i \in CallsOf("POST", "/cards/id/attachments") : calls[i].call.ent = e}

\* C16: whatever card call fails, updateBoard handles every entity and, in
\* the disasters connector, archives every open card left over in a status
\* list; an entity without a card gets exactly one card creation call, and
\* an attachment call only if that creation succeeded.
C16_CardFailuresIsolated ==
  /\ Done => idx = Len(ents) + 1
  /\ conn \in {"disasters", "topics"} =>
       \A i \in Processed :
         matched[ents[i].id] = 0 =>
           /\ Cardinality(CreatesFor(ents[i].id)) = 1
           /\ \A c \in CreatesFor(ents[i].id) :
                IF calls[c].ok
                THEN Cardinality(AttachmentsFor(ents[i].id)) = 1
                ELSE AttachmentsFor(ents[i].id) = {}
  /\ (conn = "disasters" /\ Done) =>
       \A j \in 1..Len(AllCards) :
         ( /\ \A e \in EntityIds : matched[e] # AllCards[j].pc.id
           /\ AllCards[j].pc.card.idList \in ConfigListNames("disasters")
           /\ ~AllCards[j].pc.card.closed )
         => Cardinality({i \in ArchiveCalls : calls[i].call.card = AllCards[j].pc.id}) = 1

C16_Witness ==
  /\ Done
  /\ Len(ents) = 2
  /\ \E c \in CreatesFor(ents[1].id) : ~calls[c].ok
  /\ AttachmentsFor(ents[1].id) = {}
  /\ \E c \in CreatesFor(ents[2].id) : calls[c].ok
  /\ \E c \in AttachmentsFor(ents[2].id) : calls[c].ok

\* A call that adds or removes a label of a card, or updates the fields of
\* the card of an entity.
Retried(call) ==
  call.path \in LabelPaths \/ (call.path = "/cards/id" /\ call.ent # 0)

\* The current run came to its end with every call succeeding, after a run
\* in which only label calls and field updates failed, and nothing else
\* changed upstream or on the board since that run began.
RetryRun ==
  /\ Done
  /\ ~dirty
  /\ AllOk(calls)
  /\ prev.same
  /\ prev.failed # {}
  /\ \A c \in prev.failed : Retried(c)

\* C17: the run after a run in which a label call or a field update
\* failed makes the failed call again when nothing else changed, and once
\* all its calls succeed the card is as a run without failure would have
\* left it.
C17_ImplicitRetry ==
  RetryRun =>
    \A c \in prev.failed :
      /\ \E i \in 1..Len(calls) : calls[i].call = c
      /\ board.cards[c.card] = prev.ideal.cards[c.card]

C17_Witness ==
  /\ RetryRun
  /\ \E c \in prev.failed :
       /\ c.path = "/cards/id"
       /\ \E i \in 1..Len(calls) : calls[i].call = c
       /\ board.cards[c.card] = prev.ideal.cards[c.card]
       /\ board.cards[c.card] # SnapCard(c.card)

\* The number of the current run, or of the last run between two runs.
RunNo == IF pc = "idle" THEN run - 1 ELSE run

\* The entities that have a card without attachment from an earlier run.
Orphaned == {e \in EntityIds : orphanFor[e].card # 0 /\ RunNo > orphanFor[e].since}

\* C18 as amended: in the disasters and topics connectors a card made for
\* an entity whose attachment failed is not matched in any later run and
\* gets no call in any later run; a later run that handles the entity
\* makes one more card for it if no fetched card is keyed by the url of
\* the entity, and no card otherwise.
C18_DuplicateUntilAttached ==
  conn \in {"disasters", "topics"} =>
    \A e \in Orphaned :
      /\ matched[e] # orphanFor[e].card
      /\ \A i \in 1..Len(calls) : calls[i].call.card # orphanFor[e].card
      /\ \A i \in Processed :
           ents[i].id = e =>
             Cardinality(CreatesFor(e)) = IF LastKeyed(ents[i].url) = 0 THEN 1 ELSE 0

\* C18: such a card is not matched and gets no call in any later run, and
\* every later run that handles the entity makes one more card for it.
C18_DuplicateEveryRun ==
  conn \in {"disasters", "topics"} =>
    \A e \in Orphaned :
      /\ matched[e] # orphanFor[e].card
      /\ \A i \in 1..Len(calls) : calls[i].call.card # orphanFor[e].card
      /\ \A i \in Processed : ents[i].id = e => Cardinality(CreatesFor(e)) = 1

\* C18 happens: the run after the one whose attachment call failed made a
\* second card for the entity and left the first one alone.
C18_Witness ==
  /\ conn \in {"disasters", "topics"}
  /\ Done
  /\ \E e \in Orphaned :
       /\ orphanFor[e].since = 0
       /\ \E c \in CreatesFor(e) :
            /\ calls[c].ok
            /\ calls[c].call.card # orphanFor[e].card
            /\ board.cards[calls[c].call.card].name = board.cards[orphanFor[e].card].name
       /\ board.cards[orphanFor[e].card].attachments = <<>>
       /\ ~board.cards[orphanFor[e].card].closed

\* The cards that have an attachment with a url: the open ones on the
\* board, and the ones the run fetched.
OpenCarrying(url) ==
  {k \in 1..Len(board.cards) :
     /\ ~board.cards[k].closed
     /\ \E a \in 1..Len(board.cards[k].attachments) : board.cards[k].attachments[a] = url}
FetchedCarrying(url) ==
  {j \in 1..Len(snap.cards) :
     \E a \in 1..Len(snap.cards[j].card.attachments) :
       snap.cards[j].card.attachments[a] = url}

\* The run before the current one archived card k.
ArchivedBefore(k) == k \in prev.archived

\* C19: a disaster whose card was archived by the run before is matched to that card, no card
\* is made for it, closed=false is sent for the card, and after a run in
\* which every call succeeded exactly one open card has the url of the
\* disaster.
C19_ReviveOneOpenCard ==
  conn = "disasters" =>
    \A i \in Processed :
      LET k == LastKeyed(ents[i].url)
      IN (k # 0 /\ SnapCard(k).closed /\ ArchivedBefore(k)) =>
           /\ matched[ents[i].id] = k
           /\ CreatesFor(ents[i].id) = {}
           /\ PutsFor(k, ents[i].id) # {}
           /\ \A c \in PutsFor(k, ents[i].id) :
                /\ "closed" \in DOMAIN calls[c].call.data
                /\ calls[c].call.data.closed = "false"
           /\ (Done /\ ~dirty /\ AllOk(calls)) =>
                Cardinality(OpenCarrying(ents[i].url)) = 1

\* C19 as amended: a disaster whose card is archived, by the run before or
\* by hand, is matched to that card, no card is made for it and
\* closed=false is sent; after a run in which every call succeeded the
\* card is open, and it is the only
\* open card with the url of the disaster if no other fetched card had
\* that url.
C19_ReviveCardOpen ==
  conn = "disasters" =>
    \A i \in Processed :
      LET k == LastKeyed(ents[i].url)
      IN (k # 0 /\ SnapCard(k).closed) =>
           /\ matched[ents[i].id] = k
           /\ CreatesFor(ents[i].id) = {}
           /\ PutsFor(k, ents[i].id) # {}
           /\ \A c \in PutsFor(k, ents[i].id) :
                /\ "closed" \in DOMAIN calls[c].call.data
                /\ calls[c].call.data.closed = "false"
           /\ (Done /\ ~dirty /\ AllOk(calls)) =>
                /\ ~board.cards[k].closed
                /\ Cardinality(FetchedCarrying(ents[i].url)) = 1 =>
                     OpenCarrying(ents[i].url) = {k}

\* C19 happens: the run before archived the card, the disaster came back,
\* and the current run opened the card again.
C19_Witness ==
  /\ conn = "disasters"
  /\ Done /\ ~dirty /\ AllOk(calls)
  /\ \E i \in Processed :
       LET k == LastKeyed(ents[i].url)
       IN /\ k # 0
          /\ SnapCard(k).closed
          /\ ArchivedBefore(k)
          /\ matched[ents[i].id] = k
          /\ OpenCarrying(ents[i].url) = {k}

\* C20: for a disaster without a matching card the disasters connector
\* makes exactly one card creation call, with the name, the description,
\* the list of the status, the position and the labels of the disaster,
\* then, only if the creation succeeded, exactly one attachment call with
\* the url of the disaster, and no other call for the disaster or the card.
C20_CreateScenario ==
  conn = "disasters" =>
    \A i \in Processed :
      LastKeyed(ents[i].url) = 0 =>
        LET e == ents[i]
            log == CallsFor(e.id)
        IN /\ Len(log) \in {1, 2}
           /\ log[1].call.m = "POST"
           /\ log[1].call.path = "/cards"
           /\ log[1].call.data.name = e.name
           /\ log[1].call.data.idList = lists[e.status]
           /\ log[1].call.data.pos = maxIndex - e.id
           /\ log[1].call.data.idLabels = getDisasterLabels(labels, e)
           /\ (pc = "entities" \/ ~dirty) =>
                log[1].call.data.desc =
                  profileUpdateHeader \o formatDate(today) \o profileHeader \o e.body
                    \o glideHeader \o e.glide
           /\ Len(log) = 2 <=> log[1].ok
           /\ Len(log) = 2 =>
                /\ log[2].call.m = "POST"
                /\ log[2].call.path = "/cards/id/attachments"
                /\ log[2].call.card = log[1].call.card
                /\ log[2].call.data.url = e.url
           /\ log[1].ok =>
                \A j \in 1..Len(calls) :
                  ( /\ calls[j].call.card = log[1].call.card
                    /\ calls[j].call.path # "/cards" )
                  => calls[j].call.ent = e.id

C20_Witness ==
  /\ conn = "disasters"
  /\ Done /\ ~dirty
  /\ \E i \in Processed :
       LET log == CallsFor(ents[i].id)
       IN /\ LastKeyed(ents[i].url) = 0
          /\ Len(log) = 2
          /\ log[1].ok /\ log[2].ok
          /\ log[1].call.data.idLabels # <<>>
          /\ board.cards[log[1].call.card].attachments = <<ents[i].url>>
          /\ board.cards[log[1].call.card].name = ents[i].name

\* The fields updateCard has collected for the i-th entity and its card.
UpdateData(i) ==
  LET e == ents[i]
      p == PreparedOf(matched[e.id])
  IN IF conn = "disasters" THEN updateDataDisaster(lists, today, maxIndex - e.id, p, e)
     ELSE IF conn = "topics" THEN updateDataTopic(lists, maxIndex - e.id, p, e)
     ELSE updateDataCountry(today, p, e)

\* C21: updateCard sends the PUT of the fields of a matched card exactly
\* when it has collected at least one field, sends it once, and no PUT of
\* a card is ever sent without a field.
C21_NoEmptyUpdate ==
  /\ \A c \in CallsOf("PUT", "/cards/id") : DOMAIN calls[c].call.data # {}
  /\ \A i \in Updated :
       LET puts == PutsFor(matched[ents[i].id], ents[i].id)
       IN /\ Cardinality(puts) = IF DOMAIN UpdateData(i) = {} THEN 0 ELSE 1
          /\ \A c \in puts : calls[c].call.data = UpdateData(i)

\* C21 happens: one entity of the run got labels but no PUT, as no field
\* differed, and another got its PUT.
C21_Witness ==
  \E i, j \in Updated :
    /\ DOMAIN UpdateData(i) = {}
    /\ CallsFor(ents[i].id) # <<>>
    /\ PutsFor(matched[ents[i].id], ents[i].id) = {}
    /\ PutsFor(matched[ents[j].id], ents[j].id) # {}

\* A check item in markdown-link form, and the URL and the name it shows.
IsLinkItem(item) == indexOf(item.name, linkSeparator) > 0
LinkOf(item) ==
  LET parts == split(item.name, linkSeparator)
  IN SubSeq(parts[2], 1, Len(parts[2]) - 1)
LinkItems(items) == {j \in 1..Len(items) : IsLinkItem(items[j])}

\* The calls of the current run for entity e on item j of a check list of
\* card k (j = 0: the items added).
ItemCalls(m, path, e, k, clName, j) ==
  {c \in CallsOf(m, path) :
     /\ calls[c].call.ent = e /\ calls[c].call.card = k
     /\ calls[c].call.cl = clName /\ calls[c].call.item = j}

\* The check lists of matched topic i that the card already had when fetched.
SyncedLists(i) ==
  {w \in Range(ents[i].checklists) : HasChecklist(SnapCard(matched[ents[i].id]), w.name)}
FetchedList(i, w) ==
  LET old == SnapCard(matched[ents[i].id])
  IN old.checklists[LastChecklist(old, w.name)]

\* The first link item of a check list with its URL.
FirstWith(items, j) ==
  \A h \in LinkItems(items) : LinkOf(items[h]) = LinkOf(items[j]) => j <= h

\* C22: in the topics connector, for a check list the matched card already
\* has, an existing link item whose URL is not desired gets one delete call,
\* a desired URL with no existing item gets one add call, an item present in
\* both gets one update call exactly when its displayed title or its
\* position differs and no call otherwise, and when every call of the topic
\* succeeded the link items of the check list are the desired ones.
C22_ChecklistSync ==
  conn = "topics" =>
    \A i \in Updated : \A w \in SyncedLists(i) :
      LET e == ents[i].id
          k == matched[e]
          had == FetchedList(i, w).items
      IN /\ \A j \in LinkItems(had) :
              LET kept == MapHas(w.items, LinkOf(had[j])) /\ FirstWith(had, j)
                  dels == ItemCalls("DELETE", "/checklists/id/checkItems/id", e, k, w.name, j)
                  puts == ItemCalls("PUT", "/cards/id/checklist/id/checkItem/id",
                                    e, k, w.name, j)
              IN IF ~kept
                 THEN Cardinality(dels) = 1 /\ puts = {}
                 ELSE LET item == MapGet(w.items, LinkOf(had[j]))
                      IN /\ dels = {}
                         /\ Cardinality(puts) =
                              IF item.name # had[j].name \/ item.position # had[j].pos
                              THEN 1 ELSE 0
                         /\ \A c \in puts :
                              calls[c].call.data = [name |-> item.name, pos |-> item.position]
         /\ \A x \in 1..Len(w.items) :
              Cardinality({c \in ItemCalls("POST", "/checklists/id/checkItems", e, k, w.name, 0) :
                             calls[c].call.data.name = w.items[x].name})
              = IF \E j \in LinkItems(had) : LinkOf(had[j]) = w.items[x].url THEN 0 ELSE 1
         /\ ( i = idx - 1 /\ \A c \in 1..Len(calls) : calls[c].call.ent = e => calls[c].ok )
            => LET now == board.cards[k].checklists[LastChecklist(board.cards[k], w.name)].items
               IN {now[j].name : j \in LinkItems(now)}
                  = {w.items[x].name : x \in 1..Len(w.items)}

\* The names of the check lists the topics connector keeps.
TopicChecklists == {"Rivers", "Sections", "Resources"}

\* C23: in the topics connector a check item whose display text is not in
\* markdown-link form never receives an update or delete call and is on the
\* card as it was fetched, and a check list of the card with another name
\* than Rivers, Sections and Resources receives no call and is on the card
\* as it was fetched.
C23_ManualEntriesKept ==
  (conn = "topics" /\ pc = "entities") =>
    /\ \A c \in 1..Len(calls) :
         LET call == calls[c].call
         IN /\ call.cl # "none" => call.cl \in TopicChecklists
            /\ call.item # 0 =>
                 LET old == SnapCard(call.card)
                 IN IsLinkItem(old.checklists[LastChecklist(old, call.cl)].items[call.item])
    /\ \A s \in 1..Len(snap.cards) :
         LET old == snap.cards[s].card
             new == board.cards[snap.cards[s].id]
         IN \A n \in 1..Len(old.checklists) :
              IF old.checklists[n].name \notin TopicChecklists
              THEN new.checklists[n] = old.checklists[n]
              ELSE SelectSeq(new.checklists[n].items, LAMBDA it : ~IsLinkItem(it))
                   = SelectSeq(old.checklists[n].items, LAMBDA it : ~IsLinkItem(it))

\* A run has synchronised a check list that holds manual items on a card
\* that has a check list of another name, and has touched a link item of it.
C23_Witness ==
  /\ conn = "topics" /\ pc = "entities"
  /\ \E i \in Updated : \E w \in SyncedLists(i) :
       /\ \E j \in 1..Len(FetchedList(i, w).items) : ~IsLinkItem(FetchedList(i, w).items[j])
       /\ \E n \in 1..Len(SnapCard(matched[ents[i].id]).checklists) :
            SnapCard(matched[ents[i].id]).checklists[n].name \notin TopicChecklists
       /\ \E c \in 1..Len(calls) :
            /\ calls[c].ok /\ calls[c].call.ent = ents[i].id
            /\ calls[c].call.cl = w.name /\ calls[c].call.item # 0

\* The read-more link prepareDisaster and prepareTopic append.
ReadMore(c, id) ==
  IF c = "topics" THEN Tok("[Read full introduction]", id)
  ELSE Tok("[Read full description]", id)

\* The body of entity i as the upstream API gave it.
RawBody(i) == upstream.ent[ents[i].id].body

\* C24 as stated: a body of more than 3 paragraphs becomes the ellipsis
\* marker, its last 4 paragraphs and the read-more link; a body of 3 or
\* fewer paragraphs is left unchanged (disasters and topics).
C24_TruncateLastFour ==
  (conn \in {"disasters", "topics"} /\ pc # "idle") =>
    \A i \in 1..Len(ents) :
      LET raw == RawBody(i)
          n == Len(raw)
      IN ents[i].body =
           IF n > 3
           THEN <<Tok("...", 0), raw[n - 3], raw[n - 2], raw[n - 1], raw[n],
                  ReadMore(conn, ents[i].id)>>
           ELSE raw

\* C24 amended: a body of more than 3 paragraphs becomes the ellipsis
\* marker, its last 3 paragraphs and the read-more link (for [p1..p5]:
\* '...', p3, p4, p5, link); a body of 3 or fewer paragraphs is left
\* unchanged (disasters and topics).
C24_TruncateLastThree ==
  (conn \in {"disasters", "topics"} /\ pc # "idle") =>
    \A i \in 1..Len(ents) :
      LET raw == RawBody(i)
          n == Len(raw)
      IN ents[i].body =
           IF n > 3
           THEN <<Tok("...", 0), raw[n - 2], raw[n - 1], raw[n],
                  ReadMore(conn, ents[i].id)>>
           ELSE raw

\* A run has prepared an entity whose body has 5 paragraphs, and the card
\* of the entity has been given the truncated body.
C24_Witness ==
  /\ conn \in {"disasters", "topics"} /\ pc = "entities"
  /\ \E i \in Handled :
       /\ Len(RawBody(i)) = 5
       /\ \E c \in 1..Len(calls) :
            /\ calls[c].ok /\ calls[c].call.ent = ents[i].id
            /\ "desc" \in DOMAIN calls[c].call.data

\* The place of entity e in the entities of the run.
PlaceOf(e) == CHOOSE i \in 1..Len(ents) : ents[i].id = e

\* C25: in the disasters and topics connectors the entities of a run are
\* ordered by ascending configured status position and, within equal status
\* position, by descending id, and updateBoard makes the calls of the
\* entities in that order.
C25_ProcessingOrder ==
  (conn \in {"disasters", "topics"} /\ pc # "idle") =>
    /\ \A i, j \in 1..Len(ents) :
         i < j => \/ ents[i].statusPosition < ents[j].statusPosition
                  \/ /\ ents[i].statusPosition = ents[j].statusPosition
                     /\ ents[i].id > ents[j].id
    /\ \A c, d \in 1..Len(calls) :
         (c < d /\ calls[c].call.ent # 0 /\ calls[d].call.ent # 0)
         => PlaceOf(calls[c].call.ent) <= PlaceOf(calls[d].call.ent)

\* The profile-update warning labels.
ProfileUpdateLabels ==
  {profileUpdateOlderThan3Weeks, profileUpdateOlderThan2Weeks, profileUpdateOlderThan1Week}

\* The age in days of the last-update date that the update of the card of
\* entity i hands to getProfileUpdateLabel.
AgeFor(i) ==
  LET card == PreparedOf(matched[ents[i].id])
  IN diffDays(today, IF conn = "disasters" THEN profileUpdateOf(card, ents[i], today)
                     ELSE card.profileUpdate)

\* C26: in the disasters and countries connectors, when the calls for a
\* matched card all succeeded, the card carries at most one profile-update
\* warning label, the one of the highest threshold the age d of the
\* last-update date exceeds: none for d <= 7, '> 1 Weeks' for 7 < d <= 14,
\* '> 2 Weeks' for 14 < d <= 21, '> 3 Weeks' for d > 21.
C26_ProfileUpdateLabel ==
  (conn \in {"disasters", "countries"} /\ pc = "entities") =>
    \A i \in Updated :
      ( i = idx - 1 /\ \A c \in 1..Len(calls) : calls[c].call.ent = ents[i].id => calls[c].ok )
      => LET d == AgeFor(i)
         IN board.cards[matched[ents[i].id]].labels \cap ProfileUpdateLabels
            = IF d > 21 THEN {profileUpdateOlderThan3Weeks}
              ELSE IF d > 14 THEN {profileUpdateOlderThan2Weeks}
              ELSE IF d > 7 THEN {profileUpdateOlderThan1Week}
              ELSE {}

\* The update of a card whose last-update date is 22 days old has put the
\* label of the highest threshold on the card.
C26_Witness ==
  /\ conn \in {"disasters", "countries"} /\ pc = "entities"
  /\ \E i \in Updated :
       /\ i = idx - 1
       /\ AgeFor(i) = 22
       /\ \A c \in 1..Len(calls) : calls[c].call.ent = ents[i].id => calls[c].ok
       /\ \E c \in CallsOf("POST", "/cards/id/idLabels") :
            /\ calls[c].call.ent = ents[i].id
            /\ calls[c].call.label = profileUpdateOlderThan3Weeks

\* The last-report warning labels.
LastReportLabels ==
  {lastReportOlderThan2Months, lastReportOlderThan1Month, lastReportOlderThan1Week}

\* The card of handled entity i: the card matched or the card created.
CardFor(i) ==
  IF matched[ents[i].id] # 0 THEN matched[ents[i].id] ELSE createdFor[ents[i].id]

\* C27: in the disasters connector, with d the age in days of the newest
\* report of the last two months, lastReport is d when d <= 7, 8 when
\* 7 < d <= 30, 31 when 30 < d <= 60, 61 when d > 60, 61 when there is no
\* such report but a report was posted once, and unset (-1) when there is
\* no report at all; and when the calls for the card of a disaster all
\* succeeded the card carries at most one last-report label: '> 2 Months'
\* iff lastReport is 61, '> 1 Month' iff 31, '> 1 Week' iff 8.
C27_LastReportBucket ==
  (conn = "disasters" /\ pc # "idle") =>
    /\ \A i \in 1..Len(ents) :
         LET report == upstream.ent[ents[i].id].report
             d == report.recent
         IN ents[i].lastReport =
              IF d >= 0
              THEN IF d <= 7 THEN d ELSE IF d <= 30 THEN 8 ELSE IF d <= 60 THEN 31 ELSE 61
              ELSE IF report.ever THEN 61 ELSE -1
    /\ \A i \in Handled :
         ( /\ i = idx - 1 /\ CardFor(i) # 0
           /\ \A c \in 1..Len(calls) : calls[c].call.ent = ents[i].id => calls[c].ok )
         => board.cards[CardFor(i)].labels \cap LastReportLabels
            = IF ents[i].lastReport = 61 THEN {lastReportOlderThan2Months}
              ELSE IF ents[i].lastReport = 31 THEN {lastReportOlderThan1Month}
              ELSE IF ents[i].lastReport = 8 THEN {lastReportOlderThan1Week}
              ELSE {}

\* The card of a disaster whose newest report is 31 days old has been given
\* the label of one month.
C27_Witness ==
  /\ conn = "disasters" /\ pc = "entities"
  /\ \E i \in Handled :
       /\ i = idx - 1 /\ CardFor(i) # 0
       /\ upstream.ent[ents[i].id].report.recent = 31
       /\ \A c \in 1..Len(calls) : calls[c].call.ent = ents[i].id => calls[c].ok
       /\ \E c \in CallsOf("POST", "/cards/id/idLabels") :
            /\ calls[c].call.ent = ents[i].id
            /\ calls[c].call.label = lastReportOlderThan1Month

\* The names of the label and list creations of the current run.
CreatedNames(path) == {calls[c].call.data.name : c \in CallsOf("POST", path)}

\* C28: when prepareLists and prepareLabels have completed, every
\* configured status maps to a list of the board and every configured or
\* entity-derived label name to a label of the board; a list or a label is
\* created only for a name the board fetched does not have, compared as it
\* is written, and at most once per name in the run.
C28_Provisioning ==
  pc \in {"updateBoard", "entities"} =>
    /\ \A i \in 1..Len(ConfigLists(conn)) :
         /\ ConfigLists(conn)[i].status \in DOMAIN lists
         /\ lists[ConfigLists(conn)[i].status] = ConfigLists(conn)[i].name
         /\ ConfigLists(conn)[i].name \in board.lists
    /\ \A n \in Range(ConfigLabels(conn)) \cup UNION {Range(ents[i].tags) : i \in 1..Len(ents)} :
         n \in labels /\ n \in board.labels
    /\ \A c \in CallsOf("POST", "/lists") :
         /\ calls[c].call.data.name \notin snap.lists
         /\ \A d \in CallsOf("POST", "/lists") :
              calls[d].call.data.name = calls[c].call.data.name => d = c
    /\ \A c \in CallsOf("POST", "/labels") :
         /\ calls[c].call.data.name \notin snap.labels
         /\ \A d \in CallsOf("POST", "/labels") :
              calls[d].call.data.name = calls[c].call.data.name => d = c

\* A run on a board that has the list 'ALERT' and the label 'flood' has
\* created the list 'Alert' and the label 'Flood' and has completed the two
\* steps.
C28_Witness ==
  /\ pc \in {"updateBoard", "entities"}
  /\ "ALERT" \in snap.lists /\ "flood" \in snap.labels
  /\ "Alert" \in CreatedNames("/lists") /\ "Flood" \in CreatedNames("/labels")

\* The cards of the map that no entity of the run was matched to and that
\* sit in a configured status list.
LeftInStatusLists ==
  {AllCards[j].pc.id : j \in {h \in 1..Len(AllCards) :
     /\ \A e \in EntityIds : matched[e] # AllCards[h].pc.id
     /\ AllCards[h].pc.card.idList \in ConfigListNames(conn)}}

\* C29: in the topics connector, after a run that processed all topics and
\* in which every call succeeded, a card that carries a canonical topic URL
\* attachment, whose topic is not upstream any more and that sits in a
\* configured status list is archived.
C29_TopicsArchival ==
  (conn = "topics" /\ Done /\ ~dirty /\ \A c \in 1..Len(calls) : calls[c].ok) =>
    \A k \in LeftInStatusLists : board.cards[k].closed

\* The countries handled so far that matched no card of the board.
Unmatched == {i \in Handled : matched[ents[i].id] = 0}

\* C30 as stated: in the countries connector a country that matches no card
\* gets a card created with its name, its body and its labels, followed by
\* an attachment of its canonical URL.
C30_CountriesCreation ==
  conn = "countries" =>
    \A i \in Unmatched :
      \E c \in CallsOf("POST", "/cards") :
        /\ calls[c].call.ent = ents[i].id
        /\ calls[c].call.data.name = ents[i].name
        /\ \E d \in CallsOf("POST", "/cards/id/attachments") :
             /\ d > c
             /\ calls[d].call.ent = ents[i].id
             /\ calls[d].call.data.url = ents[i].url

\* C30 amended: in the countries connector a country that matches no card
\* gets no call at all, and no card is ever created.
C30_CountriesNoCreation ==
  conn = "countries" =>
    /\ \A i \in Unmatched : CallsFor(ents[i].id) = <<>>
    /\ CallsOf("POST", "/cards") = {}
    /\ CallsOf("POST", "/cards/id/attachments") = {}

\* A run of the countries connector has passed a country without a card and
\* has updated the card of another country.
C30_Witness ==
  /\ conn = "countries"
  /\ Unmatched # {}
  /\ \E i \in Updated : \E c \in 1..Len(calls) : calls[c].ok /\ calls[c].call.ent = ents[i].id

\* The last-update date the body of card k of the board stores now.
StoredUpdate(k) == prepareCard(conn, k, board.cards[k]).profileUpdate
IsDate(text) == text # Undefined /\ Len(text) = 1 /\ text[1].k = "date"

\* C31: in the disasters and countries connectors, when the calls for a
\* matched card all succeeded, the card carries exactly the profile-update
\* warning label selected for the age of the last-update date its body
\* stores after the update (none when that date is at most 7 days old), and
\* no other warning label.
C31_LabelAgreesWithBody ==
  (conn \in {"disasters", "countries"} /\ pc = "entities") =>
    \A i \in Updated :
      ( /\ i = idx - 1
        /\ \A c \in 1..Len(calls) : calls[c].call.ent = ents[i].id => calls[c].ok
        /\ IsDate(StoredUpdate(matched[ents[i].id])) )
      => LET d == diffDays(today, StoredUpdate(matched[ents[i].id]))
         IN board.cards[matched[ents[i].id]].labels \cap ProfileUpdateLabels
            = IF d > 21 THEN {profileUpdateOlderThan3Weeks}
              ELSE IF d > 14 THEN {profileUpdateOlderThan2Weeks}
              ELSE IF d > 7 THEN {profileUpdateOlderThan1Week}
              ELSE {}

\* The update dates a description of the run can carry.
UpdateDates ==
  {formatDate(d) : d \in {CardDay, FirstDay, FirstDay + DaysPassing} \cup EarlierDays}

\* prepareCard applied to a card with the description generateCardDescription
\* gives for disaster i and an update date.
ReadBack(i, date) ==
  prepareCardDisaster(0, [desc |-> generateCardDescriptionDisaster(ents[i], date,
                                                                    formatDate(today))])

\* C32: in the disasters connector, for every update date and for the
\* overview and the glide value of every disaster of the run, prepareCard
\* applied to the description generateCardDescription gives recovers that
\* date as profileUpdate, that overview as profile and that glide value as
\* glide; and a matched card whose description is the generated one gets
\* no description write.
C32_BodyRoundTrip ==
  (conn = "disasters" /\ pc # "idle") =>
    /\ \A i \in 1..Len(ents) : \A date \in UpdateDates :
         /\ ReadBack(i, date).profileUpdate = date
         /\ ReadBack(i, date).text = ents[i].body
         /\ ReadBack(i, date).glide = ents[i].glide
    /\ \A i \in Updated :
         (\E date \in UpdateDates :
            SnapCard(matched[ents[i].id]).desc
              = generateCardDescriptionDisaster(ents[i], date, formatDate(today)))
         => \A c \in PutsFor(matched[ents[i].id], ents[i].id) :
              "desc" \notin DOMAIN calls[c].call.data

\* The text before the last '# Last Update' header of a description, or
\* the whole description when the two headers are not both found.
PrefixOf(desc) ==
  IF lastIndexOf(desc, lastUpdateHeader) # -1 /\ lastIndexOf(desc, introductionHeader) # -1
  THEN SubSeq(desc, 1, lastIndexOf(desc, lastUpdateHeader))
  ELSE desc

\* The description writes of the current run for matched cards.
DescWrites ==
  {c \in CallsOf("PUT", "/cards/id") :
     calls[c].call.ent # 0 /\ "desc" \in DOMAIN calls[c].call.data}

\* C33: whenever the topics connector rewrites the description of a matched
\* card, the new description is the text that preceded the last
\* '# Last Update' header of the card (the whole description when the two
\* headers are not both found), then the last-update section and the
\* introduction section of the topic.
C33_TopicsPrefixKept ==
  conn = "topics" =>
    \A c \in DescWrites :
      calls[c].call.data.desc
        = PrefixOf(SnapCard(calls[c].call.card).desc)
          \o lastUpdateHeader \o Entity(calls[c].call.ent).lastUpdate
          \o introductionHeader \o Entity(calls[c].call.ent).body

\* A description with a note before its sections was rewritten, and the
\* card has the note and the new sections.
C33_Witness ==
  /\ conn = "topics"
  /\ \E c \in DescWrites :
       LET old == SnapCard(calls[c].call.card).desc
       IN /\ calls[c].ok
          /\ PrefixOf(old) # <<>> /\ PrefixOf(old) # old
          /\ board.cards[calls[c].call.card].desc = calls[c].call.data.desc

\* C34: in the topics connector, when the board was fetched and the fetch
\* of its cards failed, the run makes no call for a card: it creates no
\* card, updates none and makes no label or check list call for one; its
\* only calls are the creations of lists and labels of the board, and it
\* handles no topic.
C34_CardFetchFailure ==
  (conn = "topics" /\ ~snap.loaded) =>
    /\ pc # "entities"
    /\ \A c \in 1..Len(calls) :
         /\ calls[c].call.path \in {"/lists", "/labels"}
         /\ calls[c].call.card = 0
         /\ calls[c].call.ent = 0

\* A run with topics on a board with cards has ended in updateBoard after
\* the fetch of the cards failed and the labels of the topics were created.
C34_Witness ==
  /\ conn = "topics" /\ ~snap.loaded
  /\ pc = "idle" /\ fatal = "updateBoard" /\ gets = 2
  /\ ents # <<>> /\ board.cards # <<>>

\* The description writes of the current run for the card matched to
\* entity i.
DescWritesFor(i) ==
  {c \in PutsFor(matched[ents[i].id], ents[i].id) : "desc" \in DOMAIN calls[c].call.data}

\* C35: in the countries connector, when the country has an empty
\* description, a matched card that stores a non-empty profile section gets
\* one description write that clears the description, and a matched card
\* that stores no profile text gets no description write.
C35_DescriptionRemoval ==
  conn = "countries" =>
    \A i \in Updated :
      ents[i].body = <<>> =>
        LET text == PreparedOf(matched[ents[i].id]).text
        IN IF text # Undefined /\ text # <<>>
           THEN /\ Cardinality(DescWritesFor(i)) = 1
                /\ \A c \in DescWritesFor(i) : calls[c].call.data.desc = <<>>
           ELSE DescWritesFor(i) = {}

\* C36: in the overview connector, when every request has been answered
\* successfully, process() has reached update() with the overview board and
\* its cards loaded, whatever the order of the answers; and when loading the
\* overview board failed, process() caught and logged the failure.
OverviewEnded == overview.process \in {"skipped", "caught", "update", "crashed"}

C36_OverviewCompletes ==
  /\ (/\ OverviewEnded
      /\ overview.getOverviewBoard = "done"
      /\ ~overview.failed)
       => (overview.process = "update" /\ overview.overviewBoard = "loaded")
  /\ (/\ OverviewEnded
      /\ \/ overview.getOverviewBoard = "rejected"
         \/ overview.overviewBoard = "noCards")
       => (overview.process = "caught" /\ overview.logged # "none")

============================================================================
